---- MODULE Spec2Model ----
(***************************************************************************)
(* Sensor-analytics core of the predictive-maintenance service:            *)
(*   predictive_analytics.py  PredictiveAnalytics, analyze_machine_health   *)
(*   analytics.py             the /analytics routes                        *)
(*   iot.py                   check_sensor_thresholds and its helpers       *)
(* Numbers are integers; a comparison with a decimal factor is written      *)
(* with both sides multiplied out (v > max*1.2 is 5*v > 6*max).             *)
(***************************************************************************)
EXTENDS Integers, Sequences, FiniteSets, TLC

\* ------------------------------------------------------------------ bounds
\* Number of training runs that get past the input checks.
MaxRuns == 2
\* The readings of one preprocessing request.
MaxReadings == 3
\* The pieces of one vendor label.
MaxTokens == 2
\* A notify request is let in while every (user, method) of the alert has
\* fewer rows than this.
MaxCopies == 2

\* The PredictiveAnalytics objects alive at the same time on one model path.
Inst == {1, 2}
\* Machine ids.
Machines == {1, 2}
\* Threads that share engine object 1: two call set_threshold_rules, one
\* calls check_thresholds.
Writers == {1, 2}
Readers == {3}
Threads == Writers \cup Readers

VARIABLES
    anomaly_model,   \* [Inst -> object]  self.anomaly_model
    scaler,          \* [Inst -> object]  self.scaler
    pc,              \* [Inst -> position of the constructing / training thread]
    cur,             \* [Inst -> record about the constructor and the last training call]
    nextRun,         \* number of the next training run
    model_file,      \* models/anomaly_model.pkl
    scaler_file,     \* models/scaler.pkl
    dpc,             \* [Inst -> position of the detect_anomalies thread]
    det,             \* [Inst -> what the running / last detect_anomalies call read]
    threshold_rules, \* [Inst -> [Machines -> rule set]]  self.threshold_rules
    configured,      \* [Machines -> rule set of the last answered POST thresholds]
    reply,           \* the last call of an engine method, a route or an evaluator, and its result
    db,              \* the committed rows of the database: sensors, readings, alerts
    calls            \* [Threads -> the call a thread is inside of on the shared engine object]

storeVars == <<anomaly_model, scaler, pc, cur, nextRun, model_file, scaler_file>>
detVars == <<dpc, det>>
restVars == <<threshold_rules, configured, reply>>
dbVars == <<db>>
callVars == <<calls>>
vars == <<anomaly_model, scaler, pc, cur, nextRun, model_file, scaler_file, dpc, det,
          threshold_rules, configured, reply, db, calls>>

Min(a, b) == IF a < b THEN a ELSE b
Abs(a) == IF a < 0 THEN -a ELSE a

\* ------------------------------------------------------- objects and files
\* A Python object reference: None, or the estimator created by training run
\* `run`, fitted or not yet fitted (fit mutates the object in place).
None == [run |-> 0, fitted |-> FALSE]
NewEstimator(r) == [run |-> r, fitted |-> FALSE]
Fit(o) == [o EXCEPT !.fitted = TRUE]

\* joblib.dump writes the object's state; the file is opened for writing
\* (truncated) before the bytes are written.
AbsentFile == [exists |-> FALSE, bytes |-> <<>>]
TruncatedFile == [exists |-> TRUE, bytes |-> <<>>]
Pickle(o) == <<o.run, IF o.fitted THEN 1 ELSE 0>>
WrittenFile(o) == [exists |-> TRUE, bytes |-> Pickle(o)]
\* joblib.load raises on a file that does not hold a whole pickle.
Loadable(f) == f.exists /\ Len(f.bytes) = 2
Unpickle(b) == [run |-> b[1], fitted |-> b[2] = 1]

\* detect_anomalies line 191: the detector is ready when neither is None.
Ready(i) == anomaly_model[i] # None /\ scaler[i] # None

\* self.threshold_rules = {} (line 33): no machine has an entry.
Unset == [set |-> FALSE, rules |-> <<>>]
NoRules == [m \in Machines |-> Unset]

\* The last training call of an object (its result, whether save_models
\* wrote both files, its run, the pair held when it began) and what the
\* constructor found in the model store (fresh until the first call).
NoCall == [ret |-> "none", saved |-> FALSE, run |-> 0, oldS |-> None, oldM |-> None,
           fresh |-> FALSE, sawModel |-> "none", sawScaler |-> "none", input |-> "none"]
\* A detect_anomalies call: the training calls it overlapped (0, 1, 2 for
\* more), the pair the object held before that training and its run, the
\* estimators the call used, how it ended, what the test of line 191 found,
\* whether the input was empty, and what the call returned ("empty" for [],
\* "flags" for the list built from the predictions).
NoDetect == [overlap |-> 0, oldS |-> None, oldM |-> None, run |-> 0,
             usedS |-> None, usedM |-> None, usedM2 |-> None, outcome |-> "none",
             trained |-> FALSE, empty |-> FALSE, returns |-> "none"]

\* ------------------------------------------------ PredictiveAnalytics.__init__
\* A new object takes the place of the old one (process start or restart).
Construct(i) ==
    /\ pc[i] \in {"none", "idle"}
    /\ dpc[i] = "idle"
    /\ anomaly_model' = [anomaly_model EXCEPT ![i] = None]
    /\ scaler' = [scaler EXCEPT ![i] = None]
    /\ cur' = [cur EXCEPT ![i] = [NoCall EXCEPT !.fresh = TRUE]]
    /\ det' = [det EXCEPT ![i] = NoDetect]
    /\ threshold_rules' = [threshold_rules EXCEPT ![i] = NoRules]
    /\ pc' = [pc EXCEPT ![i] = "load_model"]
    /\ UNCHANGED <<nextRun, model_file, scaler_file, dpc, configured, reply, db, calls>>

\* load_models, lines 453-455: the ensemble file. An exception (a truncated
\* file, a read error) leaves load_models through the except clause.
LoadModelFile(i) ==
    /\ pc[i] = "load_model"
    /\ \/ /\ ~model_file.exists
          /\ cur' = [cur EXCEPT ![i].sawModel = "absent"]
          /\ pc' = [pc EXCEPT ![i] = "load_scaler"]
          /\ UNCHANGED anomaly_model
       \/ /\ Loadable(model_file)
          /\ anomaly_model' = [anomaly_model EXCEPT ![i] = Unpickle(model_file.bytes)]
          /\ cur' = [cur EXCEPT ![i].sawModel = "loaded"]
          /\ pc' = [pc EXCEPT ![i] = "load_scaler"]
       \/ /\ model_file.exists
          /\ cur' = [cur EXCEPT ![i].sawModel = "error", ![i].sawScaler = "skipped"]
          /\ pc' = [pc EXCEPT ![i] = "idle"]
          /\ UNCHANGED anomaly_model
    /\ UNCHANGED <<scaler, nextRun, model_file, scaler_file, dpc, det, restVars, dbVars, callVars>>

\* load_models, lines 457-459: the standardization file.
LoadScalerFile(i) ==
    /\ pc[i] = "load_scaler"
    /\ \/ /\ ~scaler_file.exists
          /\ cur' = [cur EXCEPT ![i].sawScaler = "absent"]
          /\ UNCHANGED scaler
       \/ /\ Loadable(scaler_file)
          /\ scaler' = [scaler EXCEPT ![i] = Unpickle(scaler_file.bytes)]
          /\ cur' = [cur EXCEPT ![i].sawScaler = "loaded"]
       \/ /\ scaler_file.exists
          /\ cur' = [cur EXCEPT ![i].sawScaler = "error"]
          /\ UNCHANGED scaler
    /\ pc' = [pc EXCEPT ![i] = "idle"]
    /\ UNCHANGED <<anomaly_model, nextRun, model_file, scaler_file, dpc, det, restVars, dbVars, callVars>>

\* ------------------------------------------- train_anomaly_detection_model
\* The kinds of training input: an empty frame, a frame without a column
\* that names a canonical channel, a frame that can be fitted.
TrainingInputs == {"empty", "no_columns", "usable"}

\* A faulty variant of AfterRefusedInput: the scaler is dropped before the
\* input is looked at.
AfterRefusedInput_cleared(o) == None

\* What self.scaler holds after a refused input: lines 138-155 return before
\* the first assignment of line 158.
AfterRefusedInput(o) == o

\* Lines 138-155: the input checks. Both failures return False before
\* anything is assigned.
TrainBegin(i, input) ==
    /\ pc[i] = "idle"
    /\ IF input = "usable"
         THEN /\ nextRun <= MaxRuns
              /\ cur' = [cur EXCEPT ![i].ret = "running", ![i].saved = FALSE,
                                    ![i].run = nextRun, ![i].fresh = FALSE,
                                    ![i].input = input,
                                    ![i].oldS = scaler[i], ![i].oldM = anomaly_model[i]]
              /\ nextRun' = nextRun + 1
              /\ pc' = [pc EXCEPT ![i] = "new_scaler"]
              /\ det' = IF dpc[i] = "idle" THEN det
                        ELSE [det EXCEPT ![i].overlap = Min(@ + 1, 2),
                                         ![i].run = nextRun]
              /\ UNCHANGED scaler
         ELSE /\ cur' = [cur EXCEPT ![i].ret = "false", ![i].saved = FALSE,
                                    ![i].fresh = FALSE, ![i].input = input]
              /\ scaler' = [scaler EXCEPT ![i] = AfterRefusedInput(@)]
              /\ UNCHANGED <<nextRun, pc, det>>
    /\ UNCHANGED <<anomaly_model, model_file, scaler_file, dpc, restVars, dbVars, callVars>>

\* Line 158: self.scaler = StandardScaler()
TrainNewScaler(i) ==
    /\ pc[i] = "new_scaler"
    /\ scaler' = [scaler EXCEPT ![i] = NewEstimator(cur[i].run)]
    /\ pc' = [pc EXCEPT ![i] = "fit_scaler"]
    /\ UNCHANGED <<anomaly_model, cur, nextRun, model_file, scaler_file, dpc, det, restVars, dbVars, callVars>>

\* What self.scaler holds after fit_transform raised: the except clause of
\* lines 176-178 assigns nothing.
ScalerAfterFailedFit(o) == o

\* Line 159: fit_transform fits the scaler in place; it raises on a matrix
\* with a non-finite cell, and lines 176-178 then return False.
TrainFitScaler(i, finite) ==
    /\ pc[i] = "fit_scaler"
    /\ IF finite
         THEN /\ scaler' = [scaler EXCEPT ![i] = Fit(@)]
              /\ pc' = [pc EXCEPT ![i] = "new_model"]
              /\ UNCHANGED cur
         ELSE /\ scaler' = [scaler EXCEPT ![i] = ScalerAfterFailedFit(@)]
              /\ pc' = [pc EXCEPT ![i] = "idle"]
              /\ cur' = [cur EXCEPT ![i].ret = "false"]
    /\ UNCHANGED <<anomaly_model, nextRun, model_file, scaler_file, dpc, det, restVars, dbVars, callVars>>

\* Lines 162-166: self.anomaly_model = IsolationForest(...)
TrainNewModel(i) ==
    /\ pc[i] = "new_model"
    /\ anomaly_model' = [anomaly_model EXCEPT ![i] = NewEstimator(cur[i].run)]
    /\ pc' = [pc EXCEPT ![i] = "fit_model"]
    /\ UNCHANGED <<scaler, cur, nextRun, model_file, scaler_file, dpc, det, restVars, dbVars, callVars>>

\* Line 168: self.anomaly_model.fit(X_scaled)
TrainFitModel(i) ==
    /\ pc[i] = "fit_model"
    /\ anomaly_model' = [anomaly_model EXCEPT ![i] = Fit(@)]
    /\ pc' = [pc EXCEPT ![i] = "dump_model"]
    /\ UNCHANGED <<scaler, cur, nextRun, model_file, scaler_file, dpc, det, restVars, dbVars, callVars>>

\* What train_anomaly_detection_model returns after save_models came back:
\* save_models has no return value and swallows its exception (lines
\* 444-445), so line 174 returns True either way.
TrainResult(saved) == "true"

\* save_models line 437, joblib.dump of the ensemble: the file is opened
\* (truncated), then written. ok = FALSE is the dump raising at that point.
SaveOpenModel(i, ok) ==
    /\ pc[i] = "dump_model"
    /\ IF ok
         THEN /\ model_file' = TruncatedFile
              /\ pc' = [pc EXCEPT ![i] = "write_model"]
              /\ UNCHANGED cur
         ELSE /\ pc' = [pc EXCEPT ![i] = "idle"]
              /\ cur' = [cur EXCEPT ![i].ret = TrainResult(FALSE)]
              /\ UNCHANGED model_file
    /\ UNCHANGED <<anomaly_model, scaler, nextRun, scaler_file, dpc, det, restVars, dbVars, callVars>>

SaveWriteModel(i, ok) ==
    /\ pc[i] = "write_model"
    /\ IF ok
         THEN /\ model_file' = WrittenFile(anomaly_model[i])
              /\ pc' = [pc EXCEPT ![i] = "dump_scaler"]
              /\ UNCHANGED cur
         ELSE /\ pc' = [pc EXCEPT ![i] = "idle"]
              /\ cur' = [cur EXCEPT ![i].ret = TrainResult(FALSE)]
              /\ UNCHANGED model_file
    /\ UNCHANGED <<anomaly_model, scaler, nextRun, scaler_file, dpc, det, restVars, dbVars, callVars>>

\* save_models line 440, joblib.dump of the scaler.
SaveOpenScaler(i, ok) ==
    /\ pc[i] = "dump_scaler"
    /\ IF ok
         THEN /\ scaler_file' = TruncatedFile
              /\ pc' = [pc EXCEPT ![i] = "write_scaler"]
              /\ UNCHANGED cur
         ELSE /\ pc' = [pc EXCEPT ![i] = "idle"]
              /\ cur' = [cur EXCEPT ![i].ret = TrainResult(FALSE)]
              /\ UNCHANGED scaler_file
    /\ UNCHANGED <<anomaly_model, scaler, nextRun, model_file, dpc, det, restVars, dbVars, callVars>>

\* The scaler's bytes are written, save_models returns and line 174
\* returns True.
SaveWriteScaler(i, ok) ==
    /\ pc[i] = "write_scaler"
    /\ IF ok
         THEN /\ scaler_file' = WrittenFile(scaler[i])
              /\ cur' = [cur EXCEPT ![i].ret = TrainResult(TRUE), ![i].saved = TRUE]
         ELSE /\ cur' = [cur EXCEPT ![i].ret = TrainResult(FALSE)]
              /\ UNCHANGED scaler_file
    /\ pc' = [pc EXCEPT ![i] = "idle"]
    /\ UNCHANGED <<anomaly_model, scaler, nextRun, model_file, dpc, det, restVars, dbVars, callVars>>

\* ---------------------------------------------------------- detect_anomalies
\* A second thread calls detect_anomalies on object i while the first may be
\* inside train_anomaly_detection_model. Every self.scaler and
\* self.anomaly_model in the method body is a new read of the attribute.

\* A faulty variant of EarlyReturn without the test of the input.
EarlyReturn_no_empty_test(trained, empty) ==
    IF ~trained THEN "untrained" ELSE "running"

\* Lines 191-196: both attributes are tested for None, then the input; each
\* test that fails returns [].
EarlyReturn(trained, empty) ==
    IF ~trained THEN "untrained"
    ELSE IF empty THEN "empty_input"
    ELSE "running"

DetectBegin(i, empty) ==
    /\ dpc[i] = "idle"
    /\ pc[i] \notin {"none", "load_model", "load_scaler"}
    /\ IF EarlyReturn(Ready(i), empty) # "running"
         THEN /\ det' = [det EXCEPT ![i] =
                           [NoDetect EXCEPT !.outcome = EarlyReturn(Ready(i), empty),
                                            !.trained = Ready(i), !.empty = empty,
                                            !.returns = "empty"]]
              /\ UNCHANGED dpc
         ELSE /\ det' = [det EXCEPT ![i] =
                           IF pc[i] = "idle"
                             THEN [NoDetect EXCEPT !.oldS = scaler[i],
                                                   !.oldM = anomaly_model[i],
                                                   !.trained = Ready(i), !.empty = empty,
                                                   !.outcome = "running"]
                             ELSE [NoDetect EXCEPT !.overlap = 1,
                                                   !.oldS = cur[i].oldS,
                                                   !.oldM = cur[i].oldM,
                                                   !.run = cur[i].run,
                                                   !.trained = Ready(i), !.empty = empty,
                                                   !.outcome = "running"]]
              /\ dpc' = [dpc EXCEPT ![i] = "transform"]
    /\ UNCHANGED <<storeVars, restVars, dbVars, callVars>>

\* The call with fit_transform in the place of transform: it fits the
\* standardization of the object on the frame it is given.
DetectTransform_fit_transform(i) ==
    /\ dpc[i] = "transform"
    /\ scaler' = [scaler EXCEPT ![i] = Fit(@)]
    /\ det' = [det EXCEPT ![i].usedS = Fit(scaler[i])]
    /\ dpc' = [dpc EXCEPT ![i] = "predict"]
    /\ UNCHANGED <<anomaly_model, pc, cur, nextRun, model_file, scaler_file,
                   restVars, dbVars, callVars>>

\* Line 211: self.scaler.transform(X). An estimator that is not fitted raises
\* NotFittedError, which lines 231-233 turn into an empty result.
DetectTransform(i) ==
    /\ dpc[i] = "transform"
    /\ IF scaler[i].fitted
         THEN /\ det' = [det EXCEPT ![i].usedS = scaler[i]]
              /\ dpc' = [dpc EXCEPT ![i] = "predict"]
         ELSE /\ det' = [det EXCEPT ![i].usedS = scaler[i], ![i].outcome = "not_fitted",
                                   ![i].returns = "empty"]
              /\ dpc' = [dpc EXCEPT ![i] = "idle"]
    /\ UNCHANGED <<storeVars, restVars, dbVars, callVars>>

\* Line 214: self.anomaly_model.predict(X_scaled)
DetectPredict(i) ==
    /\ dpc[i] = "predict"
    /\ IF anomaly_model[i].fitted
         THEN /\ det' = [det EXCEPT ![i].usedM = anomaly_model[i]]
              /\ dpc' = [dpc EXCEPT ![i] = "score"]
         ELSE /\ det' = [det EXCEPT ![i].usedM = anomaly_model[i], ![i].outcome = "not_fitted",
                                   ![i].returns = "empty"]
              /\ dpc' = [dpc EXCEPT ![i] = "idle"]
    /\ UNCHANGED <<storeVars, restVars, dbVars, callVars>>

\* Line 215: self.anomaly_model.decision_function(X_scaled), then the result
\* list is built and returned.
DetectScore(i) ==
    /\ dpc[i] = "score"
    /\ det' = [det EXCEPT ![i].usedM2 = anomaly_model[i],
                          ![i].outcome = IF anomaly_model[i].fitted THEN "result"
                                         ELSE "not_fitted",
                          ![i].returns = IF anomaly_model[i].fitted THEN "flags"
                                         ELSE "empty"]
    /\ dpc' = [dpc EXCEPT ![i] = "idle"]
    /\ UNCHANGED <<storeVars, restVars, dbVars, callVars>>

\* ------------------------------------------------------------ feature frames
\* The frame preprocess_sensor_data returns: `len` rows in time order and one
\* column per channel present. A column is described by its first value, its
\* step per row and a jump added to the last row.
Channels == <<"temperature", "humidity", "tension", "vibration">>

Column(base, step, jump) == [present |-> TRUE, base |-> base, step |-> step, jump |-> jump]
NoColumn == [present |-> FALSE, base |-> 0, step |-> 0, jump |-> 0]
Cell(col, t, len) == col.base + col.step * (t - 1) + (IF t = len THEN col.jump ELSE 0)

EmptyFrame == [len |-> 0, temperature |-> NoColumn, humidity |-> NoColumn,
               tension |-> NoColumn, vibration |-> NoColumn]
Empty(df) == df.len = 0
\* latest_data[sensor_type] of line 315: the last row of the frame.
Latest(df, c) == Cell(df[c], df.len, df.len)

\* --------------------------------------------------------- check_thresholds
Limits(c, lo, hi) == [sensor_type |-> c, hasMin |-> TRUE, min |-> lo, hasMax |-> TRUE, max |-> hi]

\* Lines 303-308.
default_thresholds ==
    << Limits("temperature", -10, 80), Limits("humidity", 0, 100),
       Limits("tension", 0, 1000), Limits("vibration", 0, 50) >>

\* Line 311: self.threshold_rules.get(machine_id, default_thresholds)
RulesFor(rules, m) == IF rules[m].set THEN rules[m].rules ELSE default_thresholds

\* Line 323: 'high' if value < min * 0.5 or value > max * 1.5, else 'medium'.
EngineSeverity(value, limits) ==
    IF 2 * value < limits.min \/ 2 * value > 3 * limits.max THEN "high" ELSE "medium"

\* Lines 317-326: the violation record of one rule (timestamp left out).
Violation(value, limits) ==
    [sensor_type |-> limits.sensor_type, value |-> value,
     threshold_min |-> limits.min, threshold_max |-> limits.max,
     severity |-> EngineSeverity(value, limits)]

\* Line 314: the rule is looked at only when its channel is a column.
Applies(df, limits) ==
    /\ limits.sensor_type \in {Channels[k] : k \in 1..Len(Channels)}
    /\ df[limits.sensor_type].present

\* limits['min'] or limits['max'] of a rule that lacks the key raises KeyError.
Raises(df, limits) == Applies(df, limits) /\ (~limits.hasMin \/ ~limits.hasMax)

Violates(df, limits) ==
    /\ Applies(df, limits)
    /\ \/ Latest(df, limits.sensor_type) < limits.min
       \/ Latest(df, limits.sensor_type) > limits.max

RECURSIVE ViolationList(_, _)
ViolationList(df, thresholds) ==
    IF thresholds = <<>> THEN <<>>
    ELSE (IF Violates(df, Head(thresholds))
            THEN <<Violation(Latest(df, Head(thresholds).sensor_type), Head(thresholds))>>
            ELSE <<>>) \o ViolationList(df, Tail(thresholds))

\* Lines 313-332: the loop over one dictionary of rules.
EvaluateRules(df, thresholds) ==
    IF \E k \in 1..Len(thresholds) : Raises(df, thresholds[k]) THEN <<>>
    ELSE ViolationList(df, thresholds)

\* Lines 290-332. An exception anywhere in the loop returns [] (330-332).
check_thresholds(rules, df, m) ==
    IF Empty(df) THEN <<>>
    ELSE IF \E k \in 1..Len(RulesFor(rules, m)) : Raises(df, RulesFor(rules, m)[k]) THEN <<>>
    ELSE ViolationList(df, RulesFor(rules, m))

\* ----------------------------------------------- predict_failure_probability
\* Line 345.
MinTimesteps == 10
\* Line 361: tail(20).
TrendWindow == 20
\* Line 389: tail(10).
RecentWindow == 10
\* Line 408.
LongSeries == 100

\* Lines 364-365: the terms of the least-squares sums over x = 0..w-1, where
\* y is the cell of row len - w + 1 + x (the last w rows).
Term(kind, col, len, w, x) ==
    CASE kind = "x" -> x
      [] kind = "xx" -> x * x
      [] kind = "y" -> Cell(col, len - w + 1 + x, len)
      [] kind = "xy" -> x * Cell(col, len - w + 1 + x, len)

RECURSIVE SumTerms(_, _, _, _, _)
SumTerms(kind, col, len, w, x) ==
    IF x > w - 1 THEN 0
    ELSE Term(kind, col, len, w, x) + SumTerms(kind, col, len, w, x + 1)

\* Lines 361-366: the slope of the least-squares line through the last
\* TrendWindow cells, x = 0..w-1, as the fraction num/den (den > 0).
TrendOver(col, len, w) ==
    [num |-> w * SumTerms("xy", col, len, w, 0)
             - SumTerms("x", col, len, w, 0) * SumTerms("y", col, len, w, 0),
     den |-> w * SumTerms("xx", col, len, w, 0)
             - SumTerms("x", col, len, w, 0) * SumTerms("x", col, len, w, 0)]
Trend(col, len) == TrendOver(col, len, Min(len, TrendWindow))

\* The columns and lengths of the frames below, and their trends worked out
\* once (Trend is a function of the column and the length alone).
FrameColumns ==
    {Column(25, 0, 0), Column(25, 2, 0), Column(25, 0, 70), Column(50, 3, 0),
     Column(10, 0, 50), Column(10, 1, 0), Column(45, 1, 0), Column(900, -3, 0)}
FrameLens == {1, MinTimesteps - 1, MinTimesteps, LongSeries, LongSeries + 1}
Trends == [c \in FrameColumns, n \in FrameLens |-> Trend(c, n)]
TrendOf(col, len) ==
    IF col \in FrameColumns /\ len \in FrameLens THEN Trends[col, len] ELSE Trend(col, len)

\* slope > p/q
SlopeAbove(tr, p, q) == q * tr.num > p * tr.den

\* Lines 373-376, 378-381, 383-386.
TemperatureRising(df) ==
    df.temperature.present /\ SlopeAbove(TrendOf(df.temperature, df.len), 1, 1)
VibrationIncreasing(df) ==
    df.vibration.present /\ SlopeAbove(TrendOf(df.vibration, df.len), 1, 2)
HumidityUnstable(df) ==
    /\ df.humidity.present
    /\ LET tr == TrendOf(df.humidity, df.len) IN Abs(tr.num) > 2 * tr.den

\* A faulty variant of failure_indicators that leaves the humidity rule out.
failure_indicators_without_humidity(df, recent) ==
    (IF TemperatureRising(df) THEN 2 ELSE 0) + (IF VibrationIncreasing(df) THEN 2 ELSE 0)
    + recent

\* Lines 369-392; `recent` is the number of anomalies detect_anomalies
\* returned for the last RecentWindow rows.
failure_indicators(df, recent) ==
    (IF TemperatureRising(df) THEN 2 ELSE 0) + (IF VibrationIncreasing(df) THEN 2 ELSE 0)
    + (IF HumidityUnstable(df) THEN 1 ELSE 0) + recent

contributing_factors(df, recent) ==
    (IF TemperatureRising(df) THEN <<"Rising temperature trend">> ELSE <<>>)
    \o (IF VibrationIncreasing(df) THEN <<"Increasing vibration">> ELSE <<>>)
    \o (IF HumidityUnstable(df) THEN <<"Unstable humidity">> ELSE <<>>)
    \o (IF recent > 0 THEN <<"recent anomalies detected">> ELSE <<>>)

\* A faulty variant of time_to_failure_hours with inclusive cutoffs.
time_to_failure_hours_inclusive(p10) ==
    IF p10 >= 7 THEN 24 ELSE IF p10 >= 5 THEN 72 ELSE IF p10 >= 3 THEN 168 ELSE 0

\* Lines 397-404, on the probability in tenths; 0 stands for None.
time_to_failure_hours(p10) ==
    IF p10 > 7 THEN 24 ELSE IF p10 > 5 THEN 72 ELSE IF p10 > 3 THEN 168 ELSE 0

\* A faulty variant of confidence that counts a series of exactly LongSeries
\* rows as long.
confidence_from_long_series(len) == IF len >= LongSeries THEN 8 ELSE 6

\* Line 408, in tenths: 0.8 if len(sensor_data) > 100 else 0.6.
confidence(len) == IF len > LongSeries THEN 8 ELSE 6

\* Lines 344-411. failure_probability and confidence are in tenths:
\* min(failure_indicators / 10.0, 1.0) is Min(failure_indicators, 10) / 10.
predict_failure_probability(df, recent) ==
    IF Empty(df) \/ df.len < MinTimesteps
      THEN [failure_probability |-> 0, confidence |-> 0, time_to_failure_hours |-> 0,
            contributing_factors |-> <<>>]
      ELSE [failure_probability |-> Min(failure_indicators(df, recent), 10),
            confidence |-> confidence(df.len),
            time_to_failure_hours |->
                time_to_failure_hours(Min(failure_indicators(df, recent), 10)),
            contributing_factors |-> contributing_factors(df, recent)]

\* ---------------------------------------------------- analyze_machine_health
\* What load_models leaves in a new object (lines 449-462); `fault` names the
\* call that raises while the request is served, if one does: the
\* joblib.load of the ensemble or of the scaler, or the scaler's transform
\* (the frame's feature columns differ from those of the training set).
LoadedModel(fault) ==
    IF Loadable(model_file) /\ fault # "model" THEN Unpickle(model_file.bytes) ELSE None
LoadedScaler(fault) ==
    IF model_file.exists /\ (fault = "model" \/ ~Loadable(model_file)) THEN None
    ELSE IF Loadable(scaler_file) /\ fault # "scaler" THEN Unpickle(scaler_file.bytes)
    ELSE None

\* A frame with at least one column that names a channel (lines 200-206).
HasFeatureColumns(df) ==
    \E k \in 1..Len(Channels) : df[Channels[k]].present

\* detect_anomalies on a new object gets as far as line 211 when both
\* estimators are there and the frame has rows and feature columns.
ReachesTransform(df, fault) ==
    /\ LoadedModel(fault) # None /\ LoadedScaler(fault) # None
    /\ ~Empty(df) /\ HasFeatureColumns(df)
\* Lines 211-215 raise on an estimator that is not fitted and on a feature
\* set that is not the training one.
DetectRaises(df, fault) ==
    /\ ReachesTransform(df, fault)
    /\ \/ fault = "transform"
       \/ ~LoadedModel(fault).fitted \/ ~LoadedScaler(fault).fitted
\* detect_anomalies returns flags only when it raised nothing on the way.
CanDetect(df, fault) == ReachesTransform(df, fault) /\ ~DetectRaises(df, fault)

\* The flag counts detect_anomalies can return for the frame (line 536) and
\* for its last RecentWindow rows (line 389, reached from MinTimesteps rows on).
DetectorOutput(df, fault, whole, recent) ==
    /\ CanDetect(df, fault) \/ (whole = 0 /\ recent = 0)
    /\ whole <= df.len
    /\ recent <= RecentWindow
    /\ df.len >= MinTimesteps \/ recent = 0

\* A faulty variant of Handled that lets the exception through.
Handled_reraised(raised, value, neutral) ==
    [raised |-> raised, value |-> IF raised THEN neutral ELSE value]

\* The except clause of detect_anomalies (lines 231-233): an exception
\* raised in the body is logged and the neutral value returned.
Handled(raised, value, neutral) ==
    [raised |-> FALSE, value |-> IF raised THEN neutral ELSE value]

\* A faulty variant of health_status that tests the warning condition before
\* the critical one; C2 does not hold of it.
health_status_warning_first(prediction, threshold_violations, anomalies) ==
    IF prediction.failure_probability > 5 \/ threshold_violations # <<>> THEN "warning"
    ELSE IF prediction.failure_probability > 7 THEN "critical"
    ELSE IF anomalies > 0 THEN "attention"
    ELSE "healthy"

\* A faulty variant of health_status that is critical from a probability
\* above 0.5.
health_status_critical_above_half(prediction, threshold_violations, anomalies) ==
    IF prediction.failure_probability > 5 THEN "critical"
    ELSE IF threshold_violations # <<>> THEN "warning"
    ELSE IF anomalies > 0 THEN "attention"
    ELSE "healthy"

\* Lines 545-551.
health_status(prediction, threshold_violations, anomalies) ==
    IF prediction.failure_probability > 7 THEN "critical"
    ELSE IF prediction.failure_probability > 5 \/ threshold_violations # <<>> THEN "warning"
    ELSE IF anomalies > 0 THEN "attention"
    ELSE "healthy"

NoReply == [op |-> "none"]

\* A faulty variant of analyze_machine_health without the test of lines
\* 529-533: the three analyses run on the empty frame.
analyze_machine_health_without_empty_test(m, df, fault, whole, recent) ==
    [op |-> "analyze_machine_health", machine_id |-> m, df |-> df,
     status |-> "success",
     health_status |-> health_status(predict_failure_probability(df, 0), <<>>, 0),
     failure_prediction |-> predict_failure_probability(df, 0),
     anomalies |-> 0,
     threshold_violations |-> <<>>]

\* Lines 513-561, on the frame preprocess_sensor_data returned. `whole` and
\* `recent` are the flag counts of the detector when it can detect. An
\* exception that leaves a callee leaves analyze_machine_health too (it has
\* no try of its own): status "raised" stands for that.
analyze_machine_health(m, df, fault, whole, recent) ==
    IF Empty(df)
      THEN [op |-> "analyze_machine_health", machine_id |-> m, df |-> df,
            status |-> "no_data"]
      ELSE LET detected == Handled(DetectRaises(df, fault),
                                   IF CanDetect(df, fault) THEN whole ELSE 0, 0)
               detected_recent == Handled(DetectRaises(df, fault),
                                          IF CanDetect(df, fault) THEN recent ELSE 0, 0)
               violations == check_thresholds(NoRules, df, m)
               prediction == predict_failure_probability(df, detected_recent.value)
           IN IF detected.raised \/ detected_recent.raised
                THEN [op |-> "analyze_machine_health", machine_id |-> m, df |-> df,
                      status |-> "raised"]
                ELSE [op |-> "analyze_machine_health", machine_id |-> m, df |-> df,
                      status |-> "success",
                      health_status |-> health_status(prediction, violations, detected.value),
                      failure_prediction |-> prediction,
                      anomalies |-> detected.value,
                      threshold_violations |-> violations]

\* ------------------------------------------------- iot.py threshold evaluator
\* A Sensor row (machine.py lines 31-38): min_value and max_value are
\* nullable columns; hasMin / hasMax say whether the column holds a number.
Sensor(type, hasMin, lo, hasMax, hi) ==
    [type |-> type, hasMin |-> hasMin, min_value |-> lo, hasMax |-> hasMax, max_value |-> hi]

CanonicalTypes == {"temperature", "humidity", "tension", "vibration"}

\* Lines 432-437.
critical_thresholds ==
    [t \in CanonicalTypes |->
        CASE t = "temperature" -> [min |-> -40, max |-> 120]
          [] t = "humidity" -> [min |-> 5, max |-> 95]
          [] t = "tension" -> [min |-> -100, max |-> 800]
          [] t = "vibration" -> [min |-> -10, max |-> 80]]

Alert(type, severity, bound) == [type |-> type, severity |-> severity, bound |-> bound]

\* Lines 430-452: the Alert, or nothing (None).
check_critical_thresholds(sensor, value) ==
    IF /\ sensor.type \in CanonicalTypes
       /\ \/ value < critical_thresholds[sensor.type].min
          \/ value > critical_thresholds[sensor.type].max
      THEN <<Alert("critical_threshold", "critical", "critical")>>
      ELSE <<>>

\* Lines 393-403: below the minimum the severity is always 'medium'.
MinAlert(sensor, value) ==
    IF value < sensor.min_value
      THEN <<Alert("threshold_violation", "medium", "min")>> ELSE <<>>

\* Lines 406-416: 'high' if value > max_value * 1.2, else 'medium'.
MaxAlert(sensor, value) ==
    IF value > sensor.max_value
      THEN <<Alert("threshold_violation",
                   IF 5 * value > 6 * sensor.max_value THEN "high" ELSE "medium", "max")>>
      ELSE <<>>

\* A faulty variant of check_sensor_thresholds that makes the critical check
\* only when no configured bound was violated; C8 does not hold of it.
check_sensor_thresholds_critical_else(sensor, value) ==
    IF ~sensor.hasMin THEN <<>>
    ELSE IF ~sensor.hasMax THEN MinAlert(sensor, value)
    ELSE IF MinAlert(sensor, value) \o MaxAlert(sensor, value) # <<>>
      THEN MinAlert(sensor, value) \o MaxAlert(sensor, value)
      ELSE check_critical_thresholds(sensor, value)

\* Lines 387-428: the alerts added to db.session, in order. Comparing the
\* value with None raises TypeError; lines 427-428 catch it, and the
\* statements after the comparison are not run.
check_sensor_thresholds(sensor, value) ==
    IF ~sensor.hasMin THEN <<>>
    ELSE IF ~sensor.hasMax THEN MinAlert(sensor, value)
    ELSE MinAlert(sensor, value) \o MaxAlert(sensor, value)
         \o check_critical_thresholds(sensor, value)

\* ------------------------------------------------------------ inputs
\* Frames the threshold routes are called with: one row or MinTimesteps
\* rows, a temperature that is flat, rising or jumps to 95 in the last row,
\* a vibration that is absent or jumps to 60.
ThresholdFrames ==
    {EmptyFrame} \cup
    { [len |-> n, temperature |-> t, humidity |-> NoColumn, tension |-> NoColumn,
       vibration |-> v] :
        n \in {1, MinTimesteps},
        t \in {Column(25, 0, 0), Column(25, 2, 0), Column(25, 0, 70)} \cap FrameColumns,
        v \in {NoColumn, Column(10, 0, 50)} }

\* Frames the health analysis is called with: the empty frame, a frame of
\* rows without a channel column (readings that lack sensor_type or value
\* are not pivoted, line 78), and frames just below and at MinTimesteps rows
\* with flat and rising channels; the vibration that starts at 45 ends above
\* its default maximum.
HealthFrames ==
    {EmptyFrame, [EmptyFrame EXCEPT !.len = MinTimesteps]} \cup
    { [len |-> n, temperature |-> t, humidity |-> h, tension |-> NoColumn,
       vibration |-> v] :
        n \in {MinTimesteps - 1, MinTimesteps},
        t \in {Column(25, 0, 0), Column(25, 2, 0)},
        h \in {NoColumn, Column(50, 3, 0)},
        v \in {NoColumn, Column(10, 1, 0), Column(45, 1, 0)} }

\* Frames the failure predictor is called with: below and at MinTimesteps
\* rows, at and above LongSeries rows; every channel is flat or changes by
\* the same step from row to row.
PredictFrames ==
    { [len |-> n, temperature |-> t, humidity |-> h, tension |-> NoColumn,
       vibration |-> v] :
        n \in {MinTimesteps - 1, MinTimesteps, LongSeries, LongSeries + 1},
        t \in {Column(25, 0, 0), Column(25, 2, 0)},
        h \in {NoColumn, Column(50, 3, 0), Column(900, -3, 0)},
        v \in {NoColumn, Column(10, 1, 0)} }

\* Sensors the evaluator is called with: the four canonical types and one
\* vendor label no table knows; bounds absent, in order, or inverted.
SensorTypes == CanonicalTypes \cup {"flow"}
Absent == [has |-> FALSE, v |-> 0]
Bound(v) == [has |-> TRUE, v |-> v]
Sensors ==
    { Sensor(t, lo.has, lo.v, hi.has, hi.v) :
        t \in SensorTypes, lo \in {Absent, Bound(0), Bound(50)},
        hi \in {Absent, Bound(10), Bound(100)} }
Readings == {-150, -5, 30, 96, 110, 121, 125, 900}

\* Rule sets a client posts: the one of test_analytics.py (lines 120-127)
\* cut to two channels, and a tighter one.
RuleSets ==
    { << Limits("temperature", 0, 60), Limits("vibration", 0, 30) >>,
      << Limits("temperature", 30, 70) >> }

\* Rule sets in which the rule of one channel lacks its "max" key, before or
\* after a rule that has both keys; set_threshold_rules stores what it is
\* given (line 430).
MalformedRuleSets ==
    { << Limits("temperature", 0, 60),
         [Limits("vibration", 0, 30) EXCEPT !.hasMax = FALSE] >>,
      << [Limits("vibration", 0, 30) EXCEPT !.hasMax = FALSE],
         Limits("temperature", 0, 60) >> }

\* The number of rows the ensemble flags in a whole frame (the ensemble is
\* opaque: its flags are an input). The status reads only whether it is 0.
WholeCounts == {0, 1}

Faults == {"none", "model", "scaler", "transform"}

\* The frame the inference methods are called with: MinTimesteps rows of a
\* temperature that rises by 2 a row from 25.
InferenceFrames ==
    { [EmptyFrame EXCEPT !.len = MinTimesteps, !.temperature = Column(25, 2, 0)] }

\* Frames of one row a thread checks: a temperature of 25, below the minimum
\* of the tighter rule set only, and one of 95, above every maximum.
RuleFrames ==
    { [EmptyFrame EXCEPT !.len = 1, !.temperature = t] :
        t \in {Column(25, 0, 0), Column(25, 0, 70)} }

\* --------------------------------------------------------- set_threshold_rules
\* The entry updated in place with the argument's rules, the rules of the
\* channels the argument does not name kept.
set_threshold_rules_merged(rules, m, thresholds) ==
    [rules EXCEPT ![m] =
        [set |-> TRUE,
         rules |-> thresholds \o
            SelectSeq(@.rules, LAMBDA l : \A k \in DOMAIN thresholds :
                                             thresholds[k].sensor_type # l.sensor_type)]]

\* Line 430: self.threshold_rules[machine_id] = thresholds
set_threshold_rules(rules, m, thresholds) ==
    [rules EXCEPT ![m] = [set |-> TRUE, rules |-> thresholds]]

\* ------------------------------------------------------ routes of analytics.py
\* POST /analytics/thresholds/<id>, lines 192-217. The engine object is
\* created by the request (line 204), written to, and dropped with it.
set_machine_thresholds(m, thresholds) ==
    /\ IF thresholds = <<>>
         THEN /\ reply' = [op |-> "set_machine_thresholds", machine_id |-> m, code |-> 400]
              /\ UNCHANGED configured
         ELSE LET analytics == set_threshold_rules(NoRules, m, thresholds)
              IN /\ reply' = [op |-> "set_machine_thresholds", machine_id |-> m,
                              code |-> 200, thresholds |-> analytics[m].rules]
                 /\ configured' = set_threshold_rules(configured, m, thresholds)
    /\ UNCHANGED <<storeVars, detVars, dbVars, callVars, threshold_rules>>

\* GET /analytics/thresholds/<id>, lines 150-190: a new engine object (line
\* 175) checks the frame built from the machine's latest readings.
get_threshold_violations(m, df) ==
    /\ reply' = [op |-> "get_threshold_violations", machine_id |-> m, df |-> df,
                 code |-> 200, violations |-> check_thresholds(NoRules, df, m)]
    /\ UNCHANGED <<storeVars, detVars, dbVars, callVars, threshold_rules, configured>>

\* GET /analytics/health/<id> and the dashboard, lines 41-42 and 281-282.
get_machine_health(m, df, fault, whole, recent) ==
    /\ DetectorOutput(df, fault, whole, recent)
    /\ reply' = analyze_machine_health(m, df, fault, whole, recent) @@ [fault |-> fault]
    /\ UNCHANGED <<storeVars, detVars, dbVars, callVars, threshold_rules, configured>>

\* GET /analytics/predictions/<id>, lines 106-148: a new engine object (line
\* 134) predicts from the frame of the machine's readings.
get_failure_predictions(m, df, fault, recent) ==
    /\ DetectorOutput(df, fault, 0, recent)
    /\ reply' = [op |-> "get_failure_predictions", machine_id |-> m, df |-> df,
                 code |-> 200, recent |-> recent,
                 prediction |-> predict_failure_probability(df, recent)]
    /\ UNCHANGED <<storeVars, detVars, dbVars, callVars, threshold_rules, configured>>

\* ------------------------------------------ calls on one engine object
\* set_threshold_rules on object i (lines 422-431).
SetThresholdRules(i, m, thresholds) ==
    /\ pc[i] = "idle"
    /\ threshold_rules' = [threshold_rules EXCEPT ![i] = set_threshold_rules(@, m, thresholds)]
    /\ reply' = [op |-> "set_threshold_rules", object |-> i, machine_id |-> m]
    /\ UNCHANGED <<storeVars, detVars, dbVars, callVars, configured>>

\* check_thresholds on object i (lines 279-332).
CheckThresholds(i, m, df) ==
    /\ pc[i] = "idle"
    /\ reply' = [op |-> "check_thresholds", object |-> i, machine_id |-> m, df |-> df,
                 violations |-> check_thresholds(threshold_rules[i], df, m)]
    /\ UNCHANGED <<storeVars, detVars, dbVars, callVars, threshold_rules, configured>>

\* ------------------------------------- threads that share one engine object
\* A thread outside any call.
IdleCall == [pc |-> "idle", machine_id |-> 0, thresholds |-> <<>>, df |-> EmptyFrame]
NoCalls == [t \in Threads |-> IdleCall]

\* A thread enters set_threshold_rules(machine_id, thresholds) on object 1.
SetThresholdRulesCall(t, m, thresholds) ==
    /\ calls[t].pc = "idle"
    /\ calls' = [calls EXCEPT ![t] = [IdleCall EXCEPT !.pc = "store", !.machine_id = m,
                                                      !.thresholds = thresholds]]
    /\ UNCHANGED <<storeVars, detVars, dbVars, restVars>>

\* Line 430, one dictionary store, then the log line and the return.
SetThresholdRulesStore(t) ==
    /\ calls[t].pc = "store"
    /\ threshold_rules' = [threshold_rules EXCEPT
                              ![1] = set_threshold_rules(@, calls[t].machine_id,
                                                         calls[t].thresholds)]
    /\ reply' = [op |-> "set_threshold_rules", object |-> 1,
                 machine_id |-> calls[t].machine_id]
    /\ calls' = [calls EXCEPT ![t] = IdleCall]
    /\ UNCHANGED <<storeVars, detVars, dbVars, configured>>

\* Line 311 of check_thresholds on a frame with rows: the thread takes the
\* machine's entry, or the defaults, as the dictionary it will iterate.
CheckThresholdsGet(t, m, df) ==
    /\ calls[t].pc = "idle"
    /\ ~Empty(df)
    /\ calls' = [calls EXCEPT ![t] = [pc |-> "iterate", machine_id |-> m,
                                      thresholds |-> RulesFor(threshold_rules[1], m),
                                      df |-> df]]
    /\ UNCHANGED <<storeVars, detVars, dbVars, restVars>>

\* Lines 313-328: the loop over the dictionary taken at line 311, then the
\* return.
CheckThresholdsReturn(t) ==
    /\ calls[t].pc = "iterate"
    /\ reply' = [op |-> "check_thresholds", object |-> 1,
                 machine_id |-> calls[t].machine_id, df |-> calls[t].df,
                 thresholds |-> calls[t].thresholds,
                 violations |-> EvaluateRules(calls[t].df, calls[t].thresholds)]
    /\ calls' = [calls EXCEPT ![t] = IdleCall]
    /\ UNCHANGED <<storeVars, detVars, dbVars, threshold_rules, configured>>

\* predict_failure_probability on object i (lines 334-420); `recent` is the
\* number of rows its detect_anomalies call (line 389) flags, which is 0
\* unless the object holds a fitted pair.
PredictFailureProbability(i, df, recent) ==
    /\ pc[i] \notin {"none", "load_model", "load_scaler"}
    /\ recent = 0 \/ (Ready(i) /\ anomaly_model[i].fitted /\ scaler[i].fitted
                        /\ df.len >= MinTimesteps)
    /\ reply' = [op |-> "predict_failure_probability", object |-> i, df |-> df,
                 prediction |-> predict_failure_probability(df, recent)]
    /\ UNCHANGED <<storeVars, detVars, dbVars, callVars, threshold_rules, configured>>

\* check_sensor_thresholds as the ingestion routes call it (iot.py lines 98,
\* 198, 318) for one stored reading.
CheckSensorThresholds(sensor, value) ==
    /\ reply' = [op |-> "check_sensor_thresholds", sensor |-> sensor, value |-> value,
                 alerts |-> check_sensor_thresholds(sensor, value)]
    /\ UNCHANGED <<storeVars, detVars, dbVars, callVars, threshold_rules, configured>>

\* ------------------------------------------------- ingestion routes of iot.py
\* The columns of the Machine and Sensor entities (machine.py lines 6-11 and
\* 32-39). Query.filter_by(key=...) raises InvalidRequestError when the
\* entity has no attribute of that name.
MachineColumns == {"id", "name", "location", "description", "status", "created_at"}
SensorColumns ==
    {"id", "machine_id", "name", "type", "unit", "min_value", "max_value", "created_at"}
FilterByRaises(columns, key) == key \notin columns

\* Lines 367-385: the bounds given to a sensor the route creates.
get_default_min_value(sensor_type) == IF sensor_type = "temperature" THEN -50 ELSE 0
get_default_max_value(sensor_type) ==
    CASE sensor_type = "temperature" -> 150
      [] sensor_type = "tension" -> 1000
      [] OTHER -> 100

\* One entry of the request's "sensors" list and the request body.
Item(hasId, type, hasValue, value) ==
    [hasId |-> hasId, type |-> type, hasValue |-> hasValue, value |-> value]
NoData == [present |-> FALSE, hasMachine |-> FALSE, sensors |-> <<>>]
Data(hasMachine, sensors) == [present |-> TRUE, hasMachine |-> hasMachine, sensors |-> sensors]

\* Line 61: an entry without sensor_id, type or value is skipped.
ValidItem(item) == item.hasId /\ item.type # "" /\ item.hasValue

\* Lines 70-79: the sensor the loop creates for an entry.
CreatedSensor(item) ==
    Sensor(item.type, TRUE, get_default_min_value(item.type),
           TRUE, get_default_max_value(item.type))

\* Lines 55-98: the alerts the loop adds to the session, entry by entry.
RECURSIVE SessionAlerts(_)
SessionAlerts(items) ==
    IF items = <<>> THEN <<>>
    ELSE (IF ValidItem(Head(items))
            THEN check_sensor_thresholds(CreatedSensor(Head(items)), Head(items).value)
            ELSE <<>>) \o SessionAlerts(Tail(items))

ValidCount(items) == Cardinality({k \in 1..Len(items) : ValidItem(items[k])})

\* The methods of the class PredictiveAnalytics (predictive_analytics.py
\* lines 22-464); analyze_machine_health is a function of the module, not a
\* method, so analytics.analyze_machine_health raises AttributeError.
EngineMethods ==
    {"preprocess_sensor_data", "create_features", "train_anomaly_detection_model",
     "detect_anomalies", "check_thresholds", "predict_failure_probability",
     "set_threshold_rules", "save_models", "load_models",
     "generate_sample_training_data"}

\* The value the loop goes on with. Siemens reads the key "value" (line 58);
\* Schneider and generic read value "or" the next key (lines 156, 275-277),
\* so a value of 0 gives way to a key the entry does not have, and is None.
TruthyValue(route, item) == item.hasValue /\ (route = "siemens" \/ item.value # 0)

\* Lines 61, 159, 279: the entries the loop does not skip.
ValidFor(route, item) == item.hasId /\ item.type # "" /\ TruthyValue(route, item)

\* The rows are committed as the loop goes and the request then fails.
IngestOutcome_commit_in_loop(route, data) ==
    IF ~data.present \/ ~data.hasMachine \/ data.sensors = <<>>
      THEN [code |-> 400, processed |-> 0, alerts |-> <<>>, analysis |-> "none"]
      ELSE [code |-> 500, processed |-> ValidCount(data.sensors),
            alerts |-> SessionAlerts(data.sensors), analysis |-> "none"]

\* The three routes (lines 35-121, 130-221, 230-341): the status code, the
\* readings and alerts committed, and what the analysis call after the commit
\* came to. The Machine query (lines 49, 145, 256) filters by external_id; an
\* exception anywhere is answered 500 after db.session.rollback(). The
\* types of the entries are canonical, which normalize_sensor_type returns
\* unchanged.
IngestOutcome(route, data) ==
    LET nothing(code) == [code |-> code, processed |-> 0, alerts |-> <<>>,
                          analysis |-> "none"]
        kept == SelectSeq(data.sensors, LAMBDA item : ValidFor(route, item))
    IN IF ~data.present THEN nothing(400)
       ELSE IF ~data.hasMachine \/ data.sensors = <<>> THEN nothing(400)
       ELSE IF FilterByRaises(MachineColumns, "external_id") THEN nothing(500)
       ELSE IF kept # <<>> /\ FilterByRaises(SensorColumns, "external_id")
         THEN nothing(500)
       ELSE [code |-> 200, processed |-> Len(kept), alerts |-> SessionAlerts(kept),
             analysis |-> IF "analyze_machine_health" \in EngineMethods
                            THEN "verdict" ELSE "raised"]

SiemensOutcome(data) == IngestOutcome("siemens", data)

\* POST /api/iot/siemens/data.
receive_siemens_data(data) ==
    /\ db' = [db EXCEPT !.alerts = @ \o SiemensOutcome(data).alerts,
                        !.readings = @ + SiemensOutcome(data).processed]
    /\ reply' = [op |-> "receive_siemens_data", data |-> data,
                 code |-> SiemensOutcome(data).code,
                 processed_readings |-> SiemensOutcome(data).processed,
                 analysis |-> SiemensOutcome(data).analysis,
                 before |-> db.alerts, stored |-> db.readings]
    /\ UNCHANGED <<storeVars, detVars, callVars, threshold_rules, configured>>

\* POST /api/iot/schneider/data.
receive_schneider_data(data) ==
    /\ db' = [db EXCEPT !.alerts = @ \o IngestOutcome("schneider", data).alerts,
                        !.readings = @ + IngestOutcome("schneider", data).processed]
    /\ reply' = [op |-> "receive_schneider_data", data |-> data,
                 code |-> IngestOutcome("schneider", data).code,
                 processed_readings |-> IngestOutcome("schneider", data).processed,
                 analysis |-> IngestOutcome("schneider", data).analysis,
                 before |-> db.alerts, stored |-> db.readings]
    /\ UNCHANGED <<storeVars, detVars, callVars, threshold_rules, configured>>

\* POST /api/iot/generic/data.
receive_generic_data(data) ==
    /\ db' = [db EXCEPT !.alerts = @ \o IngestOutcome("generic", data).alerts,
                        !.readings = @ + IngestOutcome("generic", data).processed]
    /\ reply' = [op |-> "receive_generic_data", data |-> data,
                 code |-> IngestOutcome("generic", data).code,
                 processed_readings |-> IngestOutcome("generic", data).processed,
                 analysis |-> IngestOutcome("generic", data).analysis,
                 before |-> db.alerts, stored |-> db.readings]
    /\ UNCHANGED <<storeVars, detVars, callVars, threshold_rules, configured>>

\* The request bodies sent to the route.
Items ==
    {Item(TRUE, t, TRUE, v) : t \in {"temperature", "humidity"}, v \in {30, 125, 900}}
      \cup {Item(TRUE, "temperature", FALSE, 0), Item(TRUE, "temperature", TRUE, 0)}
SiemensRequests ==
    {NoData} \cup {Data(m, <<>>) : m \in BOOLEAN}
      \cup {Data(m, <<a>>) : m \in BOOLEAN, a \in Items}
      \cup {Data(m, <<a, b>>) : m \in BOOLEAN, a \in Items, b \in Items}

\* ------------------------------------------- notify_users_for_alert (alert.py)
\* The users of the store, all of them engineers or admins, and the methods
\* of a Notification (machine.py line 108).
Users == {1, 2}
Methods == {"in_app", "email"}

\* The Notification rows of one alert: how many there are for each user and
\* method. The table has no unique constraint (machine.py lines 105-110).
NoNotifications == [u \in Users, m \in Methods |-> 0]

\* No sensor, reading, alert or notification row yet.
EmptyDb == [readings |-> 0, alerts |-> <<>>, notifications |-> NoNotifications]

\* Lines 303-307: Notification.query.filter_by(user_id, alert_id, method)
\* .first(). The query sees the committed rows and, the session flushing
\* before a query, the rows this request has added; it does not see what
\* another request has added and not yet committed.
existing_notification(committed, session, user_id, method) ==
    committed[user_id, method] + session[user_id, method] > 0

\* Lines 282-295: the request is read; without user_ids it goes to every
\* engineer and admin.
NotifyBegin(t, user_ids, method) ==
    /\ calls[t].pc = "idle"
    /\ \A u \in Users, m \in Methods : db.notifications[u, m] < MaxCopies
    /\ calls' = [calls EXCEPT ![t] =
                    [pc |-> "loop", method |-> method, session |-> NoNotifications,
                     user_ids |-> IF user_ids = <<>> THEN <<1, 2>> ELSE user_ids]]
    /\ UNCHANGED <<storeVars, detVars, dbVars, restVars>>

\* Lines 296-319, one turn of the loop: a user that does not exist or
\* already has a notification is skipped, for another a row is added to
\* the session.
NotifyUser(t) ==
    /\ calls[t].pc = "loop"
    /\ calls[t].user_ids # <<>>
    /\ calls' = [calls EXCEPT
          ![t].user_ids = Tail(@),
          ![t].session =
              IF Head(calls[t].user_ids) \notin Users THEN @
              ELSE IF existing_notification(db.notifications, @,
                                            Head(calls[t].user_ids), calls[t].method)
                THEN @
              ELSE [@ EXCEPT ![Head(calls[t].user_ids), calls[t].method] = 1]]
    /\ UNCHANGED <<storeVars, detVars, dbVars, restVars>>

\* Lines 321-327: db.session.commit() and the answer.
NotifyCommit(t) ==
    /\ calls[t].pc = "loop"
    /\ calls[t].user_ids = <<>>
    /\ db' = [db EXCEPT !.notifications =
                  [u \in Users, m \in Methods |-> @[u, m] + calls[t].session[u, m]]]
    /\ reply' = [op |-> "notify_users_for_alert", code |-> 201,
                 notifications |-> calls[t].session]
    /\ calls' = [calls EXCEPT ![t] = IdleCall]
    /\ UNCHANGED <<storeVars, detVars, threshold_rules, configured>>

\* The requests for one alert: two requests at a time, for a user, for a
\* user listed twice, for a user and an id that is no user, or for everyone.
NextNotify ==
    \E t \in {1, 2} :
        \/ \E user_ids \in {<<>>, <<1>>, <<1, 1>>, <<2, 3>>}, method \in Methods :
               NotifyBegin(t, user_ids, method)
        \/ NotifyUser(t)
        \/ NotifyCommit(t)


\* ------------------------------------------------------ normalize_sensor_type
\* A label is the sequence of its characters.
UpperCase == <<"A", "B", "C", "D", "E", "F", "G", "H", "I", "J", "K", "L", "M", "N", "O", "P", "Q", "R", "S", "T", "U", "V", "W", "X", "Y", "Z">>
LowerCase == <<"a", "b", "c", "d", "e", "f", "g", "h", "i", "j", "k", "l", "m", "n", "o", "p", "q", "r", "s", "t", "u", "v", "w", "x", "y", "z">>

\* str.lower() on the letters A-Z.
lower(label) ==
    [k \in DOMAIN label |->
        IF \E n \in DOMAIN UpperCase : UpperCase[n] = label[k]
          THEN LowerCase[CHOOSE n \in DOMAIN UpperCase : UpperCase[n] = label[k]]
          ELSE label[k]]

\* str.strip(): the label without its leading and trailing blanks.
strip(label) ==
    LET inked == { k \in DOMAIN label : label[k] # " " }
    IN  IF inked = {} THEN <<>>
        ELSE SubSeq(label, CHOOSE k \in inked : \A j \in inked : k <= j,
                           CHOOSE k \in inked : \A j \in inked : j <= k)

\* term in sensor_type: the term stands somewhere in the label.
Contains(label, term) ==
    \E k \in 0..(Len(label) - Len(term)) : SubSeq(label, k + 1, k + Len(term)) = term

\* Lines 349-361: the lists of terms, in the order the code tests them.
Keywords ==
    << [type |-> <<"t", "e", "m", "p", "e", "r", "a", "t", "u", "r", "e">>,
        terms |-> {<<"t", "e", "m", "p">>,
                   <<"t", "e", "m", "p", "e", "r", "a", "t", "u", "r", "e">>,
                   <<"t", "h", "e", "r", "m", "a", "l">>}],
       [type |-> <<"h", "u", "m", "i", "d", "i", "t", "y">>,
        terms |-> {<<"h", "u", "m", "i", "d", "i", "t", "y">>,
                   <<"m", "o", "i", "s", "t", "u", "r", "e">>,
                   <<"r", "h">>}],
       [type |-> <<"t", "e", "n", "s", "i", "o", "n">>,
        terms |-> {<<"t", "e", "n", "s", "i", "o", "n">>,
                   <<"p", "r", "e", "s", "s", "u", "r", "e">>,
                   <<"f", "o", "r", "c", "e">>,
                   <<"s", "t", "r", "e", "s", "s">>}],
       [type |-> <<"v", "i", "b", "r", "a", "t", "i", "o", "n">>,
        terms |-> {<<"v", "i", "b", "r", "a", "t", "i", "o", "n">>,
                   <<"v", "i", "b", "r">>,
                   <<"o", "s", "c", "i", "l", "l", "a", "t", "i", "o", "n">>,
                   <<"s", "h", "a", "k", "e">>}] >>

\* The group whose term stands leftmost in the label.
MatchingGroup_leftmost_term(label) ==
    LET hits == { n \in DOMAIN Keywords :
                    \E term \in Keywords[n].terms : Contains(label, term) }
        At(k, n) == \E term \in Keywords[n].terms :
                        /\ k + Len(term) <= Len(label)
                        /\ SubSeq(label, k + 1, k + Len(term)) = term
        Leftmost(n) == CHOOSE k \in 0..Len(label) :
                           At(k, n) /\ \A j \in 0..(k - 1) : ~At(j, n)
    IN  IF hits = {} THEN 0
        ELSE CHOOSE n \in hits :
                 \A m \in hits : \/ Leftmost(n) < Leftmost(m)
                                  \/ (Leftmost(n) = Leftmost(m) /\ n <= m)

\* The chain of if statements of lines 349-361: the first group, in the
\* order of the code, one of whose terms is in the label; 0 when none is.
MatchingGroup(label) ==
    LET hits == { n \in DOMAIN Keywords :
                    \E term \in Keywords[n].terms : Contains(label, term) }
    IN  IF hits = {} THEN 0 ELSE CHOOSE n \in hits : \A m \in hits : n <= m

\* The same, the label given back as it came when no term matches.
normalize_sensor_type_raw_default(sensor_type) ==
    IF MatchingGroup(strip(lower(sensor_type))) = 0 THEN sensor_type
    ELSE Keywords[MatchingGroup(strip(lower(sensor_type)))].type

\* Lines 344-365.
normalize_sensor_type(sensor_type) ==
    IF MatchingGroup(strip(lower(sensor_type))) = 0 THEN strip(lower(sensor_type))
    ELSE Keywords[MatchingGroup(strip(lower(sensor_type)))].type

\* Vendor labels: up to MaxTokens of these pieces, written one after the other.
Tokens ==
    { <<" ">>,
      <<"T", "e", "m", "p">>,
      <<"T", "H", "E", "R", "M", "A", "L">>,
      <<"r", "h">>,
      <<"M", "o", "i", "s", "t", "u", "r", "e">>,
      <<"F", "o", "r", "c", "e">>,
      <<"s", "t", "r", "e", "s", "s">>,
      <<"V", "i", "b", "r">>,
      <<"s", "h", "a", "k", "e">>,
      <<"f", "l", "o", "w">>,
      <<"L", "e", "v", "e", "l">>,
      <<"t", "e", "m", "p", "e", "r", "a", "t", "u", "r", "e">>,
      <<"h", "u", "m", "i", "d", "i", "t", "y">>,
      <<"t", "e", "n", "s", "i", "o", "n">>,
      <<"v", "i", "b", "r", "a", "t", "i", "o", "n">> }

RECURSIVE LabelsOf(_)
LabelsOf(n) ==
    IF n = 0 THEN {<<>>}
    ELSE LabelsOf(n - 1) \cup { a \o b : a \in LabelsOf(n - 1), b \in Tokens }
Labels == LabelsOf(MaxTokens) \ {<<>>}

\* A route normalizes the type of an entry (lines 163, 282); the type it
\* stored is normalized again when it comes back in a later request.
NormalizeSensorType ==
    /\ reply.op = "label"
    /\ reply' = [op |-> "normalize_sensor_type", sensor_type |-> reply.sensor_type,
                 result |-> normalize_sensor_type(reply.sensor_type),
                 again |-> normalize_sensor_type(normalize_sensor_type(reply.sensor_type))]
    /\ UNCHANGED <<storeVars, detVars, dbVars, callVars, threshold_rules, configured>>

\* ------------------------------------------------------ preprocess_sensor_data
\* A reading as the routes hand it over (analytics.py lines 33-39): a sensor
\* type, a value, a timestamp (an instant, here a number).
SensorReading(type, value, timestamp) ==
    [sensor_type |-> type, value |-> value, timestamp |-> timestamp]

\* A cell of the pivoted frame: a number, or NaN.
NaN == [present |-> FALSE, value |-> 0]
Number(v) == [present |-> TRUE, value |-> v]

\* pd.DataFrame() and pd.DataFrame([]): no row, no column.
EmptyDataFrame == [index |-> <<>>, columns |-> <<>>]

\* Line 61, df.sort_values('timestamp'): the rows by ascending timestamp,
\* rows of one timestamp in their order of arrival.
RECURSIVE sort_values(_)
sort_values(rows) ==
    IF rows = <<>> THEN <<>>
    ELSE LET k == CHOOSE k \in DOMAIN rows :
                      \A j \in DOMAIN rows :
                          \/ rows[k].timestamp < rows[j].timestamp
                          \/ rows[k].timestamp = rows[j].timestamp /\ k <= j
             rest == [j \in 1..(Len(rows) - 1) |->
                          IF j < k THEN rows[j] ELSE rows[j + 1]]
         IN  <<rows[k]>> \o sort_values(rest)

\* The index of the pivot: the group keys, each once, in ascending order.
RECURSIVE Ascending(_)
Ascending(S) ==
    IF S = {} THEN <<>>
    ELSE LET least == CHOOSE t \in S : \A u \in S : t <= u
         IN  <<least>> \o Ascending(S \ {least})

RECURSIVE SumValues(_, _)
SumValues(rows, K) ==
    IF K = {} THEN 0
    ELSE LET k == CHOOSE k \in K : TRUE
         IN  rows[k].value + SumValues(rows, K \ {k})

\* aggfunc='mean' over the rows of one timestamp and one sensor type; a pair
\* without a row is NaN.
PivotCell(rows, type, timestamp) ==
    LET K == { k \in DOMAIN rows : /\ rows[k].sensor_type = type
                                   /\ rows[k].timestamp = timestamp }
    IN  IF K = {} THEN NaN ELSE Number(SumValues(rows, K) \div Cardinality(K))

\* Lines 65-70: pivot_table(index='timestamp', columns='sensor_type',
\* values='value', aggfunc='mean').reset_index()
pivot_table(rows) ==
    LET index == Ascending({ rows[k].timestamp : k \in DOMAIN rows })
        types == { rows[k].sensor_type : k \in DOMAIN rows }
    IN  [index |-> index,
         columns |-> [c \in types |->
                         [r \in DOMAIN index |-> PivotCell(rows, c, index[r])]]]

\* fillna(method='ffill') on one column: a NaN takes the cell above it.
ffill(col) ==
    LET f[r \in DOMAIN col] ==
            IF col[r].present \/ r = 1 THEN col[r] ELSE f[r - 1]
    IN  [r \in DOMAIN col |-> f[r]]

\* fillna(method='bfill') on one column: a NaN takes the cell below it.
bfill(col) ==
    LET n == Len(col)
        f[d \in 0..(n - 1)] ==
            IF col[n - d].present \/ d = 0 THEN col[n - d] ELSE f[d - 1]
    IN  [r \in DOMAIN col |-> f[n - r]]

fillna(df, method) ==
    [df EXCEPT !.columns =
        [c \in DOMAIN df.columns |->
            IF method = "ffill" THEN ffill(df.columns[c]) ELSE bfill(df.columns[c])]]

\* The same with the two fills in the other order.
preprocess_sensor_data_bfill_first(sensor_readings) ==
    IF sensor_readings = <<>> THEN EmptyDataFrame
    ELSE fillna(fillna(pivot_table(sort_values(sensor_readings)), "bfill"), "ffill")

\* Lines 51-76, on readings that carry the three fields.
preprocess_sensor_data(sensor_readings) ==
    IF sensor_readings = <<>> THEN EmptyDataFrame
    ELSE fillna(fillna(pivot_table(sort_values(sensor_readings)), "ffill"), "bfill")

\* The engine is handed the readings of a request and preprocesses them.
PreprocessSensorData ==
    /\ reply.op = "readings"
    /\ reply' = [op |-> "preprocess_sensor_data",
                 sensor_readings |-> reply.sensor_readings,
                 df |-> preprocess_sensor_data(reply.sensor_readings)]
    /\ UNCHANGED <<storeVars, detVars, dbVars, callVars, threshold_rules, configured>>

\* Reading lists: in any order of arrival, up to MaxReadings readings of two
\* channels at three instants; every mean of up to four such values is a
\* whole number.
ReadingSet ==
    { SensorReading(c, v, t) :
        c \in {"temperature", "vibration"}, v \in {12, 24}, t \in 1..3 }
ReadingLists == UNION { [1..n -> ReadingSet] : n \in 0..MaxReadings }

\* ----------------------------------------------------------------- states
Init ==
    /\ anomaly_model = [i \in Inst |-> None]
    /\ scaler = [i \in Inst |-> None]
    /\ pc = [i \in Inst |-> "none"]
    /\ cur = [i \in Inst |-> NoCall]
    /\ nextRun = 1
    /\ model_file = AbsentFile
    /\ scaler_file = AbsentFile
    /\ dpc = [i \in Inst |-> "idle"]
    /\ det = [i \in Inst |-> NoDetect]
    /\ threshold_rules = [i \in Inst |-> NoRules]
    /\ configured = NoRules
    /\ reply = NoReply
    /\ db = EmptyDb
    /\ calls = NoCalls

\* The requests of analytics.py run on a model store that holds nothing or
\* the files of one finished training run.
InitRoutes ==
    /\ anomaly_model = [i \in Inst |-> None]
    /\ scaler = [i \in Inst |-> None]
    /\ pc = [i \in Inst |-> "none"]
    /\ cur = [i \in Inst |-> NoCall]
    /\ nextRun = 2
    /\ \/ model_file = AbsentFile /\ scaler_file = AbsentFile
       \/ /\ model_file = WrittenFile(Fit(NewEstimator(1)))
          /\ scaler_file = WrittenFile(Fit(NewEstimator(1)))
    /\ dpc = [i \in Inst |-> "idle"]
    /\ det = [i \in Inst |-> NoDetect]
    /\ threshold_rules = [i \in Inst |-> NoRules]
    /\ configured = NoRules
    /\ reply = NoReply
    /\ db = EmptyDb
    /\ calls = NoCalls

\* The engine objects built on an empty model store, no call made yet.
InitEngine ==
    /\ anomaly_model = [i \in Inst |-> None]
    /\ scaler = [i \in Inst |-> None]
    /\ pc = [i \in Inst |-> "idle"]
    /\ cur = [i \in Inst |-> [NoCall EXCEPT !.fresh = TRUE, !.sawModel = "absent",
                                             !.sawScaler = "absent"]]
    /\ nextRun = 1
    /\ model_file = AbsentFile
    /\ scaler_file = AbsentFile
    /\ dpc = [i \in Inst |-> "idle"]
    /\ det = [i \in Inst |-> NoDetect]
    /\ threshold_rules = [i \in Inst |-> NoRules]
    /\ configured = NoRules
    /\ reply = NoReply
    /\ db = EmptyDb
    /\ calls = NoCalls

\* An engine object and a request with its readings, not yet preprocessed.
InitPreprocess ==
    /\ anomaly_model = [i \in Inst |-> None]
    /\ scaler = [i \in Inst |-> None]
    /\ pc = [i \in Inst |-> "idle"]
    /\ cur = [i \in Inst |-> [NoCall EXCEPT !.fresh = TRUE, !.sawModel = "absent",
                                             !.sawScaler = "absent"]]
    /\ nextRun = 1
    /\ model_file = AbsentFile
    /\ scaler_file = AbsentFile
    /\ dpc = [i \in Inst |-> "idle"]
    /\ det = [i \in Inst |-> NoDetect]
    /\ threshold_rules = [i \in Inst |-> NoRules]
    /\ configured = NoRules
    /\ \E sensor_readings \in ReadingLists :
           reply = [op |-> "readings", sensor_readings |-> sensor_readings]
    /\ db = EmptyDb
    /\ calls = NoCalls

\* An entry of a request with its vendor label, not yet normalized.
InitNormalize ==
    /\ anomaly_model = [i \in Inst |-> None]
    /\ scaler = [i \in Inst |-> None]
    /\ pc = [i \in Inst |-> "idle"]
    /\ cur = [i \in Inst |-> [NoCall EXCEPT !.fresh = TRUE, !.sawModel = "absent",
                                             !.sawScaler = "absent"]]
    /\ nextRun = 1
    /\ model_file = AbsentFile
    /\ scaler_file = AbsentFile
    /\ dpc = [i \in Inst |-> "idle"]
    /\ det = [i \in Inst |-> NoDetect]
    /\ threshold_rules = [i \in Inst |-> NoRules]
    /\ configured = NoRules
    /\ \E sensor_type \in Labels : reply = [op |-> "label", sensor_type |-> sensor_type]
    /\ db = EmptyDb
    /\ calls = NoCalls

\* One object's constructor and training thread.
Lifecycle(i) ==
    \/ Construct(i)
    \/ LoadModelFile(i)
    \/ LoadScalerFile(i)
    \/ \E input \in TrainingInputs : TrainBegin(i, input)
    \/ TrainNewScaler(i)
    \/ \E finite \in BOOLEAN : TrainFitScaler(i, finite)
    \/ TrainNewModel(i)
    \/ TrainFitModel(i)
    \/ \E ok \in BOOLEAN : SaveOpenModel(i, ok)
    \/ \E ok \in BOOLEAN : SaveWriteModel(i, ok)
    \/ \E ok \in BOOLEAN : SaveOpenScaler(i, ok)
    \/ \E ok \in BOOLEAN : SaveWriteScaler(i, ok)

\* The thread that runs detect_anomalies on the object.
Detection(i) ==
    \/ \E empty \in BOOLEAN : DetectBegin(i, empty)
    \/ DetectTransform(i)
    \/ DetectPredict(i)
    \/ DetectScore(i)

\* The model store shared by every object built on the same model path:
\* each request of analytics.py builds its own PredictiveAnalytics.
Next == \E i \in Inst : Lifecycle(i)

\* One detector shared by a training thread and a detecting thread.
NextDetect == Lifecycle(1) \/ Detection(1)

\* The requests of analytics.py that write and evaluate thresholds.
NextRoutes ==
    \E m \in Machines :
        \/ \E thresholds \in RuleSets \cup {<<>>} : set_machine_thresholds(m, thresholds)
        \/ \E df \in ThresholdFrames : get_threshold_violations(m, df)
        \/ \E df \in ThresholdFrames : get_machine_health(m, df, "none", 0, 0)

\* The health analysis on every frame, store and detector output.
NextHealth ==
    \E df \in HealthFrames, fault \in Faults,
       whole \in WholeCounts, recent \in 0..RecentWindow :
        get_machine_health(1, df, fault, whole, recent)

\* The two threshold evaluators: check_sensor_thresholds at ingestion, and
\* check_thresholds on an engine object whose rules a caller sets.
NextEvaluators ==
    \/ \E sensor \in Sensors, value \in Readings : CheckSensorThresholds(sensor, value)
    \/ \E thresholds \in RuleSets \cup MalformedRuleSets :
           SetThresholdRules(1, 1, thresholds)
    \/ \E df \in ThresholdFrames : CheckThresholds(1, 1, df)

\* The ingestion routes, request after request.
NextIngest ==
    \E data \in SiemensRequests :
        \/ receive_siemens_data(data)
        \/ receive_schneider_data(data)
        \/ receive_generic_data(data)

\* The prediction route.
NextPredict ==
    \E m \in Machines, df \in PredictFrames, fault \in Faults, recent \in 0..RecentWindow :
        get_failure_predictions(m, df, fault, recent)

\* Two threads that set the rules of the machines and one that checks a
\* frame against them, on one engine object, steps interleaved.
NextRules ==
    \/ \E t \in Writers, m \in Machines, thresholds \in RuleSets :
           SetThresholdRulesCall(t, m, thresholds)
    \/ \E t \in Writers : SetThresholdRulesStore(t)
    \/ \E t \in Readers, m \in Machines, df \in RuleFrames : CheckThresholdsGet(t, m, df)
    \/ \E t \in Readers : CheckThresholdsReturn(t)

\* One object that is trained and has its rules set while the three
\* inference methods are called on it.
NextInference ==
    \/ Lifecycle(1)
    \/ Detection(1)
    \/ \E thresholds \in {r \in RuleSets : Len(r) = 1} : SetThresholdRules(1, 1, thresholds)
    \/ \E df \in InferenceFrames : CheckThresholds(1, 1, df)
    \/ \E df \in InferenceFrames, recent \in {0, 1} : PredictFailureProbability(1, df, recent)

\* The preprocessing of the readings the request came with.
NextPreprocess == PreprocessSensorData

Spec == Init /\ [][Next]_vars
SpecDetect == Init /\ [][NextDetect]_vars
SpecRoutes == InitRoutes /\ [][NextRoutes]_vars
SpecHealth == InitRoutes /\ [][NextHealth]_vars
SpecEvaluators == InitEngine /\ [][NextEvaluators]_vars
SpecIngest == InitEngine /\ [][NextIngest]_vars
SpecPredict == InitRoutes /\ [][NextPredict]_vars
SpecPreprocess == InitPreprocess /\ [][NextPreprocess]_vars
SpecRules == InitEngine /\ [][NextRules]_vars
SpecInference == Init /\ [][NextInference]_vars
SpecNotify == InitEngine /\ [][NextNotify]_vars
SpecNormalize == InitNormalize /\ [][NormalizeSensorType]_vars

\* ================================================================= claims

\* ---------------------------------------------------------------------- C1
\* C1: after a POST thresholds request for machine m has been answered with
\* rule set T, every later threshold evaluation for m (the GET thresholds
\* route, analyze_machine_health) uses T instead of the default rules, and
\* a machine that was never configured is evaluated with the defaults.
\* Checked under SpecRoutes; the routes build a new engine object per request.
C1_ConfiguredRulesUsed ==
    /\ reply.op = "get_threshold_violations" /\ ~Empty(reply.df)
         => reply.violations = check_thresholds(configured, reply.df, reply.machine_id)
    /\ reply.op = "analyze_machine_health" /\ ~Empty(reply.df)
         => reply.threshold_violations
              = check_thresholds(configured, reply.df, reply.machine_id)

\* ---------------------------------------------------------------------- C2
\* C2: for a non-empty frame analyze_machine_health returns exactly one of
\* critical, warning, attention, healthy, by strict priority: critical if
\* failure_probability > 0.7 whatever else was found; else warning if it is
\* > 0.5 or a threshold violation exists; else attention if an anomaly
\* exists; else healthy. (Probabilities in tenths.) Checked under SpecHealth.
C2_StatusByPriority ==
    reply.op = "analyze_machine_health" /\ ~Empty(reply.df) =>
        /\ reply.status = "success"
        /\ reply.health_status \in {"critical", "warning", "attention", "healthy"}
        /\ LET p == reply.failure_prediction.failure_probability
               violated == Len(reply.threshold_violations) >= 1
               anomalous == reply.anomalies >= 1
           IN /\ reply.health_status = "critical" <=> p > 7
              /\ reply.health_status = "warning" <=> p <= 7 /\ (p > 5 \/ violated)
              /\ reply.health_status = "attention" <=>
                    p <= 5 /\ ~violated /\ anomalous
              /\ reply.health_status = "healthy" <=>
                    p <= 5 /\ ~violated /\ ~anomalous

\* A critical verdict that also carries threshold violations and anomalies.
C2_Witness ==
    /\ reply.op = "analyze_machine_health" /\ ~Empty(reply.df)
    /\ reply.health_status = "critical"
    /\ reply.threshold_violations # <<>>
    /\ reply.anomalies > 0

\* ---------------------------------------------------------------------- C3
Constructed(i) == pc[i] = "idle" /\ cur[i].fresh
\* The detector can detect: it holds a fitted standardization and a fitted
\* ensemble (transform and predict raise NotFittedError otherwise).
Trained(S, M) == S # None /\ M # None /\ S.fitted /\ M.fitted

\* C3: the detector follows untrained -> ready and never goes back: an
\* object created with no persisted state is untrained; a train that returns
\* True leaves it ready; an object that was ready when a training call began
\* is ready when that call has returned, whatever it returned; and an object
\* created after a restart is ready if and only if the store held both files
\* and both were loaded.
C3_Lifecycle ==
    \A i \in Inst :
        /\ Constructed(i) /\ cur[i].sawModel = "absent" /\ cur[i].sawScaler = "absent"
             => ~Trained(scaler[i], anomaly_model[i])
        /\ pc[i] = "idle" /\ cur[i].ret = "true" => Trained(scaler[i], anomaly_model[i])
        /\ pc[i] = "idle" /\ cur[i].ret \in {"true", "false"}
             /\ Trained(cur[i].oldS, cur[i].oldM)
             => Trained(scaler[i], anomaly_model[i])
        /\ Constructed(i) =>
             (Trained(scaler[i], anomaly_model[i])
                <=> cur[i].sawModel = "loaded" /\ cur[i].sawScaler = "loaded")

\* ---------------------------------------------------------------------- C4
\* C4: after train_anomaly_detection_model has returned True on object A
\* (and no later training run has begun), the model store holds exactly the
\* (ensemble, standardization) pair A holds, so a new object on the same
\* path loads that pair.
C4_StoreHoldsTrainedPair ==
    \A i \in Inst :
        pc[i] = "idle" /\ cur[i].ret = "true" /\ cur[i].run = nextRun - 1 =>
            /\ Loadable(model_file) /\ Unpickle(model_file.bytes) = anomaly_model[i]
            /\ Loadable(scaler_file) /\ Unpickle(scaler_file.bytes) = scaler[i]

\* ---------------------------------------------------------------------- C5
\* C5: a detect_anomalies call that overlaps one training call on the same
\* object ends with a result computed from the pair the object held before
\* that training or from the pair the training fitted; it never meets an
\* unfitted estimator and never mixes the two pairs. Checked under SpecDetect.
C5_DetectUsesOnePair ==
    \A i \in Inst :
        det[i].overlap = 1 /\ det[i].outcome \in {"result", "not_fitted"} =>
            /\ det[i].outcome = "result"
            /\ \/ /\ det[i].usedS = det[i].oldS
                  /\ det[i].usedM = det[i].oldM /\ det[i].usedM2 = det[i].oldM
               \/ /\ det[i].usedS = Fit(NewEstimator(det[i].run))
                  /\ det[i].usedM = Fit(NewEstimator(det[i].run))
                  /\ det[i].usedM2 = Fit(NewEstimator(det[i].run))

\* ---------------------------------------------------------------------- C6
\* C6: load_models obtains an ensemble and a standardization written by the
\* same training run, or nothing at all, also when it overlaps a
\* save_models or follows one that failed part-way.
C6_LoadIsOneVersion ==
    \A i \in Inst :
        Constructed(i) =>
            \/ anomaly_model[i] = None /\ scaler[i] = None
            \/ /\ anomaly_model[i] # None /\ scaler[i] # None
               /\ anomaly_model[i].run = scaler[i].run

\* ---------------------------------------------------------------------- C7
\* C7: a train call during which saving failed returns False, and an object
\* whose constructor met a load error is untrained.
C7_PersistenceFailureReported ==
    \A i \in Inst :
        /\ pc[i] = "idle" /\ cur[i].ret = "true" => cur[i].saved
        /\ Constructed(i) /\ (cur[i].sawModel = "error" \/ cur[i].sawScaler = "error")
             => ~Ready(i)

\* ---------------------------------------------------------------------- C8
SensorCall == reply.op = "check_sensor_thresholds"
Configured(sensor) == sensor.hasMin /\ sensor.hasMax
OutsideBounds(sensor, value) == value < sensor.min_value \/ value > sensor.max_value
OutsideCritical(sensor, value) ==
    /\ sensor.type \in CanonicalTypes
    /\ \/ value < critical_thresholds[sensor.type].min
       \/ value > critical_thresholds[sensor.type].max
CountOf(alerts, type) == Cardinality({k \in 1..Len(alerts) : alerts[k].type = type})

\* C8 as stated: for every configured min and max and every value outside
\* [min,max], exactly one threshold_violation alert is produced, and exactly
\* one critical alert if and only if the value is outside the critical
\* table of the sensor's canonical type.
C8_OneViolationPerReading ==
    SensorCall /\ Configured(reply.sensor) /\ OutsideBounds(reply.sensor, reply.value) =>
        /\ CountOf(reply.alerts, "threshold_violation") = 1
        /\ CountOf(reply.alerts, "critical_threshold")
             = IF OutsideCritical(reply.sensor, reply.value) THEN 1 ELSE 0

\* C8 (amended): the same, for configured bounds with min <= max.
C8_OneViolationPerReadingOrdered ==
    /\ SensorCall /\ Configured(reply.sensor) /\ OutsideBounds(reply.sensor, reply.value)
    /\ reply.sensor.min_value <= reply.sensor.max_value
    => /\ CountOf(reply.alerts, "threshold_violation") = 1
       /\ CountOf(reply.alerts, "critical_threshold")
            = IF OutsideCritical(reply.sensor, reply.value) THEN 1 ELSE 0

\* A reading above an ordered maximum and outside the critical table.
C8_Witness ==
    /\ SensorCall /\ Configured(reply.sensor)
    /\ reply.sensor.min_value <= reply.sensor.max_value
    /\ reply.value > reply.sensor.max_value
    /\ OutsideCritical(reply.sensor, reply.value)
    /\ Len(reply.alerts) = 2

\* ---------------------------------------------------------------------- C9
\* The value overshoots the bound by more than 20% of the bound's magnitude.
Overshoots(value, bound) == 5 * Abs(value - bound) > Abs(bound)

\* C9: in both evaluators a configured-bounds violation has severity high
\* exactly when the value overshoots the exceeded bound by more than 20% of
\* that bound's magnitude, above the maximum or below the minimum, and
\* medium otherwise. Checked under SpecEvaluators.
C9_SeverityByOvershoot ==
    /\ SensorCall =>
         \A k \in 1..Len(reply.alerts) :
            /\ reply.alerts[k].bound = "min" =>
                 (reply.alerts[k].severity = "high"
                    <=> Overshoots(reply.value, reply.sensor.min_value))
            /\ reply.alerts[k].bound = "max" =>
                 (reply.alerts[k].severity = "high"
                    <=> Overshoots(reply.value, reply.sensor.max_value))
            /\ reply.alerts[k].bound \in {"min", "max"} =>
                 reply.alerts[k].severity \in {"high", "medium"}
    /\ reply.op = "check_thresholds" =>
         \A k \in 1..Len(reply.violations) :
            LET v == reply.violations[k]
            IN /\ v.severity \in {"high", "medium"}
               /\ v.severity = "high" <=>
                     Overshoots(v.value, IF v.value < v.threshold_min THEN v.threshold_min
                                         ELSE v.threshold_max)

\* --------------------------------------------------------------------- C10
\* C10: for a sensor of a canonical type and a value outside the critical
\* table, check_sensor_thresholds produces the critical alert whatever the
\* configured min and max are, an absent bound included.
C10_CriticalIsIndependent ==
    SensorCall /\ OutsideCritical(reply.sensor, reply.value) =>
        CountOf(reply.alerts, "critical_threshold") = 1

\* --------------------------------------------------------------------- C11
\* The alert rows the last request added to the table.
AddedAlerts == SubSeq(db.alerts, Len(reply.before) + 1, Len(db.alerts))
BreachesDefault(item) ==
    \/ item.value < get_default_min_value(item.type)
    \/ item.value > get_default_max_value(item.type)
BreachesCritical(item) ==
    /\ item.type \in CanonicalTypes
    /\ \/ item.value < critical_thresholds[item.type].min
       \/ item.value > critical_thresholds[item.type].max
Breaching(items, kind) ==
    Cardinality({k \in 1..Len(items) :
                   /\ ValidItem(items[k])
                   /\ IF kind = "critical" THEN BreachesCritical(items[k])
                      ELSE BreachesDefault(items[k])})

\* C11: the evaluator keeps no memory. A request with a machine id and
\* readings that is not refused (400, 404) leaves the earlier alert rows in
\* place and adds one threshold_violation row per reading outside its
\* sensor's bounds and one critical_threshold row per reading outside the
\* critical table, so n breaching readings add n rows of each kind.
C11_EveryBreachRecorded ==
    reply.op = "receive_siemens_data" /\ reply.code \notin {400, 404} =>
        /\ Len(db.alerts) >= Len(reply.before)
        /\ SubSeq(db.alerts, 1, Len(reply.before)) = reply.before
        /\ CountOf(AddedAlerts, "threshold_violation")
             = Breaching(reply.data.sensors, "configured")
        /\ CountOf(AddedAlerts, "critical_threshold")
             = Breaching(reply.data.sensors, "critical")

\* --------------------------------------------------------------------- C12
\* C12: a detect_anomalies call that finds the ensemble or the
\* standardization absent, or an empty input, has returned the empty list:
\* it raised nothing and used no estimator. Checked under SpecDetect.
C12_EmptyWhenUntrainedOrNoInput ==
    \A i \in Inst :
        det[i].outcome # "none" /\ (~det[i].trained \/ det[i].empty) =>
            /\ det[i].returns = "empty"
            /\ dpc[i] = "idle"
            /\ det[i].usedS = None /\ det[i].usedM = None /\ det[i].usedM2 = None

\* An empty input given to a detector that is trained.
C12_Witness ==
    \E i \in Inst :
        /\ det[i].trained /\ det[i].empty /\ det[i].returns = "empty"
        /\ Trained(scaler[i], anomaly_model[i])

\* --------------------------------------------------------------------- C13
\* C13: a train_anomaly_detection_model call on an empty input, or on one
\* with no column that names a canonical channel, returns False and leaves
\* the object's ensemble and standardization and both files of the model
\* store as they were before the call.
C13_RefusedInputChangesNothing ==
    [][\A i \in Inst :
          /\ pc[i] = "idle" /\ cur'[i] # cur[i]
          /\ cur'[i].input \in {"empty", "no_columns"}
          => /\ cur'[i].ret = "false"
             /\ pc'[i] = "idle"
             /\ anomaly_model'[i] = anomaly_model[i]
             /\ scaler'[i] = scaler[i]
             /\ model_file' = model_file
             /\ scaler_file' = scaler_file]_vars

\* A refused input on a detector that is trained and persisted.
C13_Witness ==
    \E i \in Inst :
        /\ pc[i] = "idle" /\ cur[i].input \in {"empty", "no_columns"} /\ cur[i].ret = "false"
        /\ Trained(scaler[i], anomaly_model[i])
        /\ Loadable(model_file) /\ Loadable(scaler_file)

\* --------------------------------------------------------------------- C14
Predicted == reply.op = "get_failure_predictions"

\* C14: on fewer than 10 timesteps the prediction is failure_probability 0.0,
\* confidence 0.0, no time to failure and no factor; on 10 or more the
\* confidence is 0.8 for more than 100 timesteps and 0.6 otherwise, whatever
\* the channels and the detector say. (Tenths; 0 hours stands for none.)
C14_ShortSeriesAndConfidence ==
    Predicted =>
        /\ reply.df.len < 10 =>
             reply.prediction = [failure_probability |-> 0, confidence |-> 0,
                                 time_to_failure_hours |-> 0,
                                 contributing_factors |-> <<>>]
        /\ reply.df.len >= 10 =>
             reply.prediction.confidence = IF reply.df.len > 100 THEN 8 ELSE 6

\* A series of exactly 100 timesteps with indicators that fired.
C14_Witness ==
    /\ Predicted /\ reply.df.len = 100
    /\ reply.prediction.confidence = 6 /\ reply.prediction.failure_probability > 0

\* --------------------------------------------------------------------- C15
\* The slope of a channel whose cells change by the same step from row to
\* row is that step (0 for a channel that is not there).
StepOf(col) == IF col.present THEN col.step ELSE 0
\* The indicator total of the claim and the factors it names.
IndicatorTotal(df, recent) ==
    (IF StepOf(df.temperature) > 1 THEN 2 ELSE 0)
    + (IF 2 * StepOf(df.vibration) > 1 THEN 2 ELSE 0)
    + (IF StepOf(df.humidity) > 2 \/ StepOf(df.humidity) < -2 THEN 1 ELSE 0)
    + recent
FactorSet(factors) == {factors[k] : k \in 1..Len(factors)}

\* C15: on 10 or more timesteps failure_probability = min(I/10, 1.0), with I
\* = 2 if the temperature slope > 1.0, + 2 if the vibration slope > 0.5, + 1
\* if |humidity slope| > 2.0, + the number of anomalies over the trailing 10
\* timesteps; it lies in [0,1], and the factors listed are exactly those of
\* the rules that fired.
C15_ProbabilityFromIndicators ==
    Predicted /\ reply.df.len >= 10 =>
        /\ reply.prediction.failure_probability
             = (IF IndicatorTotal(reply.df, reply.recent) < 10
                  THEN IndicatorTotal(reply.df, reply.recent) ELSE 10)
        /\ reply.prediction.failure_probability \in 0..10
        /\ "Rising temperature trend" \in FactorSet(reply.prediction.contributing_factors)
             <=> StepOf(reply.df.temperature) > 1
        /\ "Increasing vibration" \in FactorSet(reply.prediction.contributing_factors)
             <=> 2 * StepOf(reply.df.vibration) > 1
        /\ "Unstable humidity" \in FactorSet(reply.prediction.contributing_factors)
             <=> (StepOf(reply.df.humidity) > 2 \/ StepOf(reply.df.humidity) < -2)
        /\ "recent anomalies detected" \in FactorSet(reply.prediction.contributing_factors)
             <=> reply.recent > 0
        /\ Len(reply.prediction.contributing_factors)
             = Cardinality(FactorSet(reply.prediction.contributing_factors))

\* Every rule fired (humidity falling) and the total, 15, is capped at 1.0.
C15_Witness ==
    /\ Predicted /\ reply.df.len >= 10
    /\ reply.recent = 10 /\ StepOf(reply.df.humidity) < -2
    /\ Len(reply.prediction.contributing_factors) = 4
    /\ reply.prediction.failure_probability = 10

\* --------------------------------------------------------------------- C16
\* C16: time_to_failure_hours is 24 when p > 0.7, 72 when 0.5 < p <= 0.7, 168
\* when 0.3 < p <= 0.5 and absent when p <= 0.3: indicator totals 8 and above
\* give 24, 6 and 7 give 72, 4 and 5 give 168, 0 to 3 give none.
C16_TimeToFailureBands ==
    Predicted /\ reply.df.len >= 10 =>
        LET p == reply.prediction.failure_probability
            hours == reply.prediction.time_to_failure_hours
        IN /\ hours \in {0, 24, 72, 168}
           /\ hours = 24 <=> p \in 8..10
           /\ hours = 72 <=> p \in {6, 7}
           /\ hours = 168 <=> p \in {4, 5}
           /\ hours = 0 <=> p \in 0..3

\* A probability of exactly 0.7, which is still in the 72 hour band.
C16_Witness ==
    /\ Predicted /\ reply.df.len >= 10
    /\ reply.prediction.failure_probability = 7
    /\ reply.prediction.time_to_failure_hours = 72

\* --------------------------------------------------------------------- C17
Analyzed == reply.op = "analyze_machine_health"

\* C17: analyze_machine_health answers the status no_data exactly when the
\* frame preprocess_sensor_data returned is empty, and that answer carries
\* no anomaly, threshold or prediction result: none was computed.
C17_NoDataOnEmptyFrame ==
    Analyzed =>
        /\ reply.status = "no_data" <=> Empty(reply.df)
        /\ Empty(reply.df) =>
             DOMAIN reply = {"op", "machine_id", "df", "status", "fault"}

\* An empty frame while the model store holds a trained pair.
C17_Witness ==
    /\ Analyzed /\ reply.status = "no_data" /\ reply.fault = "none"
    /\ Loadable(model_file) /\ Loadable(scaler_file)

Preprocessed == reply.op = "preprocess_sensor_data"
HasReading(rows, type, timestamp) ==
    \E k \in DOMAIN rows : rows[k].sensor_type = type /\ rows[k].timestamp = timestamp
\* The instant whose reading fills the cell of a channel at an instant: the
\* latest one not after it that has a reading, else the earliest one after.
FillSource(rows, type, timestamp) ==
    LET earlier == { rows[k].timestamp : k \in { j \in DOMAIN rows :
                        /\ rows[j].sensor_type = type
                        /\ rows[j].timestamp <= timestamp } }
        later == { rows[k].timestamp : k \in { j \in DOMAIN rows :
                        /\ rows[j].sensor_type = type
                        /\ rows[j].timestamp > timestamp } }
    IN  IF earlier # {} THEN CHOOSE u \in earlier : \A w \in earlier : w <= u
        ELSE CHOOSE u \in later : \A w \in later : u <= w

\* C19: for a non-empty list of readings preprocess_sensor_data returns one
\* row per distinct timestamp in ascending order, one column per sensor type
\* read, every column as long as the index, and no cell missing: a cell
\* without a reading holds the value of the channel's most recent earlier
\* instant, or of its earliest later instant when there is none.
C19_AlignedAndGapFilled ==
    Preprocessed /\ reply.sensor_readings # <<>> =>
        LET rows == reply.sensor_readings
            df == reply.df
            n == Len(df.index)
        IN  /\ { df.index[r] : r \in 1..n } = { rows[k].timestamp : k \in DOMAIN rows }
            /\ \A r \in 1..n, q \in 1..n : r < q => df.index[r] < df.index[q]
            /\ DOMAIN df.columns = { rows[k].sensor_type : k \in DOMAIN rows }
            /\ \A c \in DOMAIN df.columns :
                 /\ Len(df.columns[c]) = n
                 /\ \A r \in 1..n :
                      LET u == FillSource(rows, c, df.index[r])
                          K == { k \in DOMAIN rows : /\ rows[k].sensor_type = c
                                                     /\ rows[k].timestamp = u }
                      IN  /\ df.columns[c][r].present
                          /\ df.columns[c][r].value * Cardinality(K) = SumValues(rows, K)

\* A channel read at the first and the last of three instants with different
\* values, the other channel read in between: the middle cell is filled from
\* above, the other channel's first cell from below.
C19_Witness ==
    /\ Preprocessed
    /\ Len(reply.df.index) = 3
    /\ \E c \in DOMAIN reply.df.columns :
         /\ ~HasReading(reply.sensor_readings, c, reply.df.index[2])
         /\ reply.df.columns[c][1] # reply.df.columns[c][3]
         /\ reply.df.columns[c][2] = reply.df.columns[c][1]
    /\ \E c \in DOMAIN reply.df.columns :
         /\ ~HasReading(reply.sensor_readings, c, reply.df.index[1])
         /\ reply.df.columns[c][1].present

\* --------------------------------------------------------------------- C20
\* The entry of machine m on the shared object is the whole argument of a
\* call, or has never been written.
WholeEntry(entry) ==
    entry = Unset \/ \E thresholds \in RuleSets : entry = [set |-> TRUE, rules |-> thresholds]

\* C20: under every interleaving of two writers and a reader, the entry of a
\* machine is always unset or the whole argument of one call; a step changes
\* it only as the store of a call for that machine, and every such store
\* leaves exactly that call's argument in it, whatever the entry was and
\* whatever the other threads are in the middle of; the dictionary a reader
\* iterates is the defaults or the whole argument of one call for its
\* machine.
C20_WholeEntryLastWriteWins ==
    /\ [](\A m \in Machines : WholeEntry(threshold_rules[1][m]))
    /\ [](\A t \in Readers : calls[t].pc = "iterate" =>
            calls[t].thresholds \in RuleSets \cup {default_thresholds})
    /\ [][ /\ \A m \in Machines :
                threshold_rules'[1][m] # threshold_rules[1][m] =>
                    \E t \in Writers : /\ calls[t].pc = "store" /\ calls'[t].pc = "idle"
                                       /\ calls[t].machine_id = m
           /\ \A t \in Writers :
                calls[t].pc = "store" /\ calls'[t].pc = "idle" =>
                    threshold_rules'[1][calls[t].machine_id] =
                        [set |-> TRUE, rules |-> calls[t].thresholds]
         ]_vars

\* Both machines have an entry, a second write to the reader's machine has
\* replaced the entry the reader took and is iterating, and a writer is
\* about to store again.
C20_Witness ==
    /\ \A m \in Machines : threshold_rules[1][m].set
    /\ threshold_rules[1][1] # threshold_rules[1][2]
    /\ \E t \in Readers :
         /\ calls[t].pc = "iterate"
         /\ calls[t].thresholds \in RuleSets
         /\ calls[t].thresholds # threshold_rules[1][calls[t].machine_id].rules
    /\ \E t \in Writers : calls[t].pc = "store"

\* --------------------------------------------------------------------- C21
Ingested == reply.op \in {"receive_siemens_data", "receive_schneider_data",
                          "receive_generic_data"}
\* An entry that carries a sensor id, a type and a numeric value.
Complete(item) == item.hasId /\ item.type # "" /\ item.hasValue
CompleteCount(items) == Cardinality({k \in 1..Len(items) : Complete(items[k])})

\* C21: a batch for a machine in which one reading lacks a field and another
\* is complete is answered 200, and the complete readings are stored and
\* counted in processed_readings: the incomplete one is skipped on its own.
C21_IncompleteReadingSkippedAlone ==
    /\ Ingested /\ reply.data.present /\ reply.data.hasMachine
    /\ \E k \in DOMAIN reply.data.sensors : ~Complete(reply.data.sensors[k])
    /\ \E k \in DOMAIN reply.data.sensors :
         Complete(reply.data.sensors[k]) /\ reply.data.sensors[k].value # 0
    => /\ reply.code = 200
       /\ reply.processed_readings >= 1
       /\ db.readings = reply.stored + reply.processed_readings

\* --------------------------------------------------------------------- C22
Normalized == reply.op = "normalize_sensor_type"
CanonicalLabels == { Keywords[n].type : n \in DOMAIN Keywords }
\* The label holds a term of group n, whatever the case of its letters.
Mentions(label, n) == \E term \in Keywords[n].terms : Contains(lower(label), term)

\* C22: normalizing twice gives what normalizing once gives; a canonical
\* type comes back unchanged; the result is a canonical type, or, when the
\* label holds no term, the label in lower case without the blanks around it.
C22_Idempotent ==
    Normalized =>
        /\ reply.again = reply.result
        /\ reply.sensor_type \in CanonicalLabels => reply.result = reply.sensor_type
        /\ \/ reply.result \in CanonicalLabels
           \/ /\ \A n \in DOMAIN Keywords : ~Mentions(reply.sensor_type, n)
              /\ reply.result = strip(lower(reply.sensor_type))

\* A label with capitals and a blank in front that holds no term.
C22_Witness ==
    /\ Normalized
    /\ reply.result \notin CanonicalLabels
    /\ reply.result # reply.sensor_type
    /\ Head(reply.sensor_type) = " "

\* --------------------------------------------------------------------- C23
\* C23: a label that holds terms of several canonical types is normalized to
\* the first of them in the order temperature, humidity, tension, vibration,
\* wherever the terms stand in the label and whatever their case.
C23_FirstTypeInPriorityOrder ==
    Normalized =>
        \A n \in DOMAIN Keywords :
            Mentions(reply.sensor_type, n)
              /\ (\A m \in 1..(n - 1) : ~Mentions(reply.sensor_type, m))
            => reply.result = Keywords[n].type

\* A label in capitals whose first term is of vibration and whose second is
\* of temperature.
C23_Witness ==
    /\ Normalized
    /\ Mentions(reply.sensor_type, 1) /\ Mentions(reply.sensor_type, 4)
    /\ SubSeq(reply.sensor_type, 1, 4) = <<"V", "i", "b", "r">>
    /\ reply.result = Keywords[1].type

\* --------------------------------------------------------------------- C24
\* A step of detect_anomalies, or a call of check_thresholds or of
\* predict_failure_probability, on the object.
InferenceStep ==
    \/ /\ det' # det \/ dpc' # dpc
       /\ pc' = pc /\ cur' = cur
    \/ /\ reply' # reply
       /\ reply'.op \in {"check_thresholds", "predict_failure_probability"}

\* C24: no step of detect_anomalies and no call of check_thresholds or
\* predict_failure_probability changes the object's ensemble, its
\* standardization, its threshold rules or the two files of the model store,
\* whether the call gives results, an empty result or handles an error.
C24_InferenceIsReadOnly ==
    [][InferenceStep =>
         UNCHANGED <<anomaly_model, scaler, threshold_rules, model_file, scaler_file>>]_vars

\* A detection has ended in a handled error on an object that has rules, and
\* a prediction was then made on it.
C24_Witness ==
    /\ det[1].outcome = "not_fitted"
    /\ threshold_rules[1][1].set
    /\ reply.op = "predict_failure_probability"

\* --------------------------------------------------------------------- C25
\* C25: a batch for a machine that holds a complete reading is committed, and
\* the route answers it after the health analysis of the machine has
\* computed a verdict.
C25_VerdictAfterCommit ==
    /\ Ingested /\ reply.data.present /\ reply.data.hasMachine
    /\ \E k \in DOMAIN reply.data.sensors :
         Complete(reply.data.sensors[k]) /\ reply.data.sensors[k].value # 0
    => /\ reply.code = 200
       /\ reply.analysis = "verdict"

RouteOf(op) ==
    CASE op = "receive_siemens_data" -> "siemens"
      [] op = "receive_schneider_data" -> "schneider"
      [] OTHER -> "generic"

\* C27: a request for a machine stores and counts every entry that carries a
\* sensor id, a type and a numeric value, the value 0 included: the route's
\* test keeps each of them and processed_readings is their number.
C27_EveryCompleteReadingStored ==
    Ingested /\ reply.data.present /\ reply.data.hasMachine
             /\ reply.data.sensors # <<>> =>
        /\ \A k \in DOMAIN reply.data.sensors :
             Complete(reply.data.sensors[k]) =>
                 ValidFor(RouteOf(reply.op), reply.data.sensors[k])
        /\ reply.processed_readings = CompleteCount(reply.data.sensors)
        /\ db.readings = reply.stored + CompleteCount(reply.data.sensors)

\* --------------------------------------------------------------------- C28
\* C28: check_thresholds reports every channel whose rule has both bounds and
\* whose latest value is outside them, also when the rule of another channel
\* of the machine lacks a bound.
C28_WellFormedChannelsReported ==
    reply.op = "check_thresholds" =>
        LET rules == RulesFor(threshold_rules[reply.object], reply.machine_id)
        IN  \A k \in DOMAIN rules :
                rules[k].hasMin /\ rules[k].hasMax /\ Violates(reply.df, rules[k]) =>
                    \E j \in DOMAIN reply.violations :
                        reply.violations[j].sensor_type = rules[k].sensor_type

\* --------------------------------------------------------------------- C29
\* C29: in every verdict on a frame with rows the status is critical exactly
\* when the predicted time to failure is 24 hours, and a verdict with a time
\* to failure of 72 hours has the status warning.
C29_StatusAgreesWithTimeToFailure ==
    Analyzed /\ reply.status = "success" =>
        /\ reply.health_status = "critical"
             <=> reply.failure_prediction.time_to_failure_hours = 24
        /\ reply.failure_prediction.time_to_failure_hours = 72
             => reply.health_status = "warning"

\* A time to failure of 72 hours with no threshold violation and anomalies in
\* the frame, and so a warning that comes from the probability alone.
C29_Witness ==
    /\ Analyzed /\ reply.status = "success"
    /\ reply.failure_prediction.time_to_failure_hours = 72
    /\ reply.threshold_violations = <<>>
    /\ reply.anomalies > 0
    /\ reply.health_status = "warning"

\* --------------------------------------------------------------------- C30
\* C30: whatever calls of notify_users_for_alert have run, one after the
\* other or at the same time, the alert has at most one Notification for
\* each user and method.
C30_AtMostOneNotification ==
    \A u \in Users, m \in Methods : db.notifications[u, m] <= 1
====
